---------------------------- MODULE Spec2Model ----------------------------
(***************************************************************************)
(* Chunked face-detection-to-interaction pipeline of flashback             *)
(* (facial-stuff/app.py, video-processing/services/video_processor.py).    *)
(*                                                                         *)
(* Units.  Times are whole seconds.  Qualities, confidences, thresholds    *)
(* and embedding distances are in tenths (4 stands for 0.4, One for 1.0).  *)
(* A face embedding is a point on a line, EncStep tenths apart; the        *)
(* distance of two embeddings is the absolute difference, which is the     *)
(* Euclidean norm face_recognition.face_distance computes for vectors      *)
(* that differ in one coordinate.                                          *)
(* Python's None is the empty sequence <<>>, a present value x is <<x>>.   *)
(***************************************************************************)
EXTENDS Integers, Sequences, FiniteSets, TLC

\* ------------------------------------------------------------------ bounds
MaxSplitDuration == 22      \* longest video given to split_video on its own
MaxDuration == 6            \* longest video given to analyze_video
MaxEnc == 4                 \* embeddings are 0, EncStep, .., MaxEnc*EncStep
EncStep == 2
MaxDetections == 3          \* detections per chunk, grouping on its own
MaxChunkFaces == 2          \* detections per chunk inside analyze_video
MaxPool == 2                \* seeded identities
MaxPipeEnc == 2             \* analyze_video: embeddings 0, 2*EncStep, ..
MaxChunkLength == 6         \* longest chunk_duration_seconds of a splitter
MaxAggChunks == 2           \* chunk results given to the aggregation alone
MaxFrames == 4              \* decoded frames of a chunk
MaxFrameFaces == 1          \* faces the backend finds in one frame
MaxFrameSkip == 2           \* strides 1..MaxFrameSkip
MaxProfileInputs == 3       \* reference photos given in one batch
MaxTargets == 2             \* target profiles named by a caller
MaxVideoChunks == 3         \* chunks of a video given to process_video

\* ------------------------------------------------------- program constants
chunk_duration_seconds == 5
face_match_threshold == 4
new_contact_threshold == 3
face_grouping_threshold == 4
One == 10
MaxFaceImages == 3

ProfileIds == {"A", "B"}
Qualities == {2, 3}
Encodings == {e * EncStep : e \in 0..MaxEnc}
\* the embeddings analyze_video is run on: every second one
VideoEncodings == {e * EncStep * 2 : e \in 0..MaxPipeEnc}
\* the embeddings of the identities it is seeded with: the two outermost
SeedEncodings == {0, MaxPipeEnc * EncStep * 2}
\* the videos it is run on: empty, of one full chunk, and the longest
VideoDurations == {0, chunk_duration_seconds, MaxDuration}

None == <<>>
Some(x) == <<x>>

\* who may call analyze_video: the owner of a profile, or somebody else
Requesters == {"A", "R"}

VARIABLES
    pc,                 \* position inside analyze_video / split_video
    chunk_duration,     \* self.chunk_duration of the splitter
    profile_encodings,  \* analyze_video: the identity pool, in dict order
    duration,           \* split_video: probed duration
    num_chunks,         \* split_video: planned number of chunks
    chunks,             \* split_video: the list under construction
    video_chunks,       \* analyze_video: the list split_video returned
    chunk_pos,          \* analyze_video: chunks of the loop already handled
    face_detections,    \* detections of the chunk handled last
    face_groups,        \* clusters of the chunk handled last
    best_detections,    \* per cluster of that chunk: its representative
    match_results,      \* per cluster of that chunk: the matcher's answer
    chunk_results,      \* analyze_video: (chunk_index, profile ids) so far
    requester_user_id,  \* analyze_video: the caller's id
    profile_face_images,\* analyze_video: profile id -> crops collected
    interaction_results,\* analyze_video: what the aggregation returned
    new_interactions,   \* analyze_video: the list of recorded interactions
    store_video_ids,    \* store: the profiles whose video_ids hold video_id
    upserts,            \* store: the upsert_interaction calls that took effect
    frame_skip,         \* FaceProcessor.frame_skip
    frames,             \* process_video_chunk_faces: the decoded frames
    selected_frames,    \* process_video_chunk_faces: frames[::frame_skip]
    frame_i,            \* process_video_chunk_faces: passes of the loop done
    all_detections,     \* process_video_chunk_faces: the list it returns
    detect_calls,       \* the detect_faces_in_frame calls made so far
    profile_inputs,     \* process_profile_inputs: the batch
    seed_i,             \* process_profile_inputs: inputs handled so far
    processing_results, \* process_profile_inputs: profile_id -> status
    stored_face_data,   \* store: the profiles whose face data was upserted
    notify_args,        \* analyze_video_async: its arguments
    posts,              \* analyze_video_async: the requests it has sent
    notify_log,         \* analyze_video_async: what it has logged
    inv_pc,             \* two invocations: where each of them is
    inv_matched,        \* two invocations: the profiles each one matches
    inv_todo,           \* two invocations: store calls still to be made
    inv_read,           \* add_video_to_profile: current_video_ids as read
    db_video_ids,       \* store: profile id -> its video_ids array
    db_interactions,    \* store: profile id -> interactions with requester
    pv_chunks,          \* process_video: chunks, as split_video returned it
    pv_i,               \* process_video: passes of the chunk loop done
    chunk_ids,          \* process_video: the list for the response
    object_store,       \* the chunk ids stored in the bucket
    vector_index,       \* the chunk ids upserted into the index
    pv_response         \* process_video: the response, once there is one

\* what analyze_video collects and publishes
ResultVars == <<requester_user_id, profile_face_images, interaction_results,
                new_interactions, store_video_ids, upserts>>

\* what process_video_chunk_faces works on
FrameVars == <<frame_skip, frames, selected_frames, frame_i, all_detections,
               detect_calls>>

\* the state of the operations outside analyze_video's own loop
\* what process_profile_inputs works on
SeedVars == <<profile_inputs, seed_i, processing_results, stored_face_data>>

\* what analyze_video_async (the client of the analysis service) works on
NotifyVars == <<notify_args, posts, notify_log>>

\* two analyze_video invocations and the rows of the store they write
ConcurrentVars == <<inv_pc, inv_matched, inv_todo, inv_read, db_video_ids,
                    db_interactions>>

\* what process_video (video-processing/app.py) works on
ProcessVars == <<pv_chunks, pv_i, chunk_ids, object_store, vector_index,
                 pv_response>>

ServiceVars == <<FrameVars, SeedVars, NotifyVars, ConcurrentVars,
                 ProcessVars>>

\* the state of analyze_video and of the operations it is made of
PipelineVars == <<chunk_duration, profile_encodings, duration, num_chunks,
                  chunks, video_chunks, chunk_pos, face_detections,
                  face_groups, best_detections, match_results, chunk_results,
                  ResultVars>>

vars == <<pc, PipelineVars, ServiceVars>>

\* analyze_video has collected and published nothing yet
InitResults ==
    /\ profile_face_images = [id \in ProfileIds |-> <<>>]
    /\ interaction_results = <<>>
    /\ new_interactions = <<>>
    /\ store_video_ids = {}
    /\ upserts = <<>>

\* no chunk is being sampled
InitFramesIdle ==
    /\ frame_skip = 2
    /\ frames = <<>>
    /\ selected_frames = <<>>
    /\ frame_i = 0
    /\ all_detections = <<>>
    /\ detect_calls = <<>>

\* no batch of reference photos is being processed
InitSeedIdle ==
    /\ profile_inputs = <<>>
    /\ seed_i = 0
    /\ processing_results = <<>>
    /\ stored_face_data = {}

\* no request to the analysis service is being made
InitNotifyIdle ==
    /\ notify_args = <<>>
    /\ posts = <<>>
    /\ notify_log = <<>>

\* no second invocation is running
InitConcurrentIdle ==
    /\ inv_pc = <<>>
    /\ inv_matched = <<>>
    /\ inv_todo = <<>>
    /\ inv_read = <<>>
    /\ db_video_ids = <<>>
    /\ db_interactions = <<>>

\* no video is being processed by process_video
InitProcessIdle ==
    /\ pv_chunks = <<>>
    /\ pv_i = 0
    /\ chunk_ids = <<>>
    /\ object_store = {}
    /\ vector_index = {}
    /\ pv_response = None

InitService ==
    /\ InitFramesIdle
    /\ InitSeedIdle
    /\ InitNotifyIdle
    /\ InitConcurrentIdle
    /\ InitProcessIdle

\* analyze_video is not running
InitPipelineIdle ==
    /\ chunk_duration = chunk_duration_seconds
    /\ profile_encodings = <<>>
    /\ duration = 0
    /\ num_chunks = 0
    /\ chunks = <<>>
    /\ video_chunks = None
    /\ chunk_pos = 0
    /\ face_detections = <<>>
    /\ face_groups = <<>>
    /\ best_detections = <<>>
    /\ match_results = <<>>
    /\ chunk_results = <<>>
    /\ requester_user_id = "R"
    /\ InitResults

\* ---------------------------------------------------------------- helpers
Min(a, b) == IF a <= b THEN a ELSE b

\* =========================================================== Segmenter
\* (mutant) one chunk too many when the duration is a multiple of c
NumChunksOffByOne(d, c) == (d \div c) + 1
\* num_chunks = int(duration / c) + (1 if duration % c > 0 else 0)
NumChunks(d, c) == (d \div c) + (IF d % c > 0 THEN 1 ELSE 0)

\* (mutant) end_time without the min against the duration
ChunkTupleNoMin(i, d, c) ==
    [chunk_index |-> i,
     start_time  |-> i * c,
     end_time    |-> (i + 1) * c]

\* the tuple appended for chunk i (chunk_id and chunk_data left out)
ChunkTuple(i, d, c) ==
    [chunk_index |-> i,
     start_time  |-> i * c,
     end_time    |-> Min((i + 1) * c, d)]

SplitVars == <<chunk_duration, profile_encodings, chunk_pos,
               face_detections, face_groups, best_detections, match_results,
               chunk_results, ResultVars, ServiceVars>>

\* split_video_from_url: the download succeeds
download_video_from_url ==
    /\ pc = "download"
    /\ pc' = "probe"
    /\ UNCHANGED <<duration, num_chunks, chunks, video_chunks>>
    /\ UNCHANGED SplitVars

\* (mutant) a failed download starts the invocation over
DownloadFailsStartsOver ==
    /\ pc = "download"
    /\ pc' = "load"
    /\ UNCHANGED <<duration, num_chunks, chunks, video_chunks>>
    /\ UNCHANGED SplitVars

\* requests.get raises: the exception leaves analyze_video
DownloadFails ==
    /\ pc = "download"
    /\ pc' = "failed_download"
    /\ UNCHANGED <<duration, num_chunks, chunks, video_chunks>>
    /\ UNCHANGED SplitVars

\* ffprobe answers with one of the durations D
get_video_duration(D) ==
    /\ pc = "probe"
    /\ \E d \in D :
          /\ duration' = d
          /\ num_chunks' = NumChunks(d, chunk_duration)
    /\ chunks' = <<>>
    /\ pc' = "transcode"
    /\ UNCHANGED video_chunks
    /\ UNCHANGED SplitVars

\* ffprobe fails or prints no number: get_video_duration re-raises
ProbeFails ==
    /\ pc = "probe"
    /\ pc' = "failed_probe"
    /\ UNCHANGED <<duration, num_chunks, chunks, video_chunks>>
    /\ UNCHANGED SplitVars

\* one pass of "for i in range(num_chunks)" whose ffmpeg run succeeds
TranscodeChunk ==
    /\ pc = "transcode"
    /\ Len(chunks) < num_chunks
    /\ chunks' = Append(chunks,
                        ChunkTuple(Len(chunks), duration, chunk_duration))
    /\ UNCHANGED <<pc, duration, num_chunks, video_chunks>>
    /\ UNCHANGED SplitVars

\* (mutant) the partial list reaches the caller although the call fails
TranscodeFailsKeepsPartial ==
    /\ pc = "transcode"
    /\ Len(chunks) < num_chunks
    /\ pc' = "failed_transcode"
    /\ video_chunks' = Some(chunks)
    /\ UNCHANGED <<duration, num_chunks, chunks>>
    /\ UNCHANGED SplitVars

\* ffmpeg fails for chunk i: CalledProcessError is re-raised
TranscodeFails ==
    /\ pc = "transcode"
    /\ Len(chunks) < num_chunks
    /\ pc' = "failed_transcode"
    /\ UNCHANGED <<duration, num_chunks, chunks, video_chunks>>
    /\ UNCHANGED SplitVars

\* the loop is over: "return chunks", received by the caller
SplitReturn ==
    /\ pc = "transcode"
    /\ Len(chunks) = num_chunks
    /\ video_chunks' = Some(chunks)
    /\ pc' = "chunk_loop"
    /\ UNCHANGED <<duration, num_chunks, chunks>>
    /\ UNCHANGED SplitVars

\* split_video called on its own, for a splitter of any chunk length
\* (VideoChunker.__init__, VideoProcessor.__init__)
InitSplit ==
    /\ pc = "probe"
    /\ chunk_duration \in 1..MaxChunkLength
    /\ profile_encodings = <<>>
    /\ duration = 0
    /\ num_chunks = 0
    /\ chunks = <<>>
    /\ video_chunks = None
    /\ chunk_pos = 0
    /\ face_detections = <<>>
    /\ face_groups = <<>>
    /\ best_detections = <<>>
    /\ match_results = <<>>
    /\ chunk_results = <<>>
    /\ requester_user_id = "R"
    /\ InitResults
    /\ InitService

NextSplit ==
    \/ get_video_duration(0..MaxSplitDuration)
    \/ ProbeFails
    \/ TranscodeChunk
    \/ TranscodeFails
    \/ SplitReturn

SpecSplit == InitSplit /\ [][NextSplit]_vars

\* ================================================== Chunk Deduplicator
\* A detection is [face_encoding, confidence]; a list of detections is the
\* list process_video_chunk_faces returns.  The objects of the list are told
\* apart by their position in it (the code uses id(detection)), so sorted
\* lists and groups are sequences of positions of face_detections.
FaceDetections(E) == [face_encoding : E, confidence : Qualities]

RECURSIVE SeqsUpTo(_, _)
SeqsUpTo(S, n) ==
    IF n = 0 THEN {<<>>}
    ELSE LET shorter == SeqsUpTo(S, n - 1)
         IN  shorter \cup {Append(q, x) : q \in shorter, x \in S}

\* face_recognition.face_distance([a], b)[0]
face_distance(a, b) == IF a >= b THEN a - b ELSE b - a

\* sorted(face_detections, key=confidence, reverse=True): descending, and
\* stable, so equal confidences keep their input order
RECURSIVE SortFrom(_, _)
SortFrom(dets, remaining) ==
    IF remaining = {} THEN <<>>
    ELSE LET best == CHOOSE i \in remaining : \A j \in remaining :
                        \/ dets[j].confidence < dets[i].confidence
                        \/ dets[j].confidence = dets[i].confidence /\ i <= j
         IN  <<best>> \o SortFrom(dets, remaining \ {best})

\* (mutant) the sort without reverse=True: ascending confidence
RECURSIVE SortFromAscending(_, _)
SortFromAscending(dets, remaining) ==
    IF remaining = {} THEN <<>>
    ELSE LET least == CHOOSE i \in remaining : \A j \in remaining :
                         \/ dets[j].confidence > dets[i].confidence
                         \/ dets[j].confidence = dets[i].confidence /\ i <= j
         IN  <<least>> \o SortFromAscending(dets, remaining \ {least})

sorted_ascending(dets) == SortFromAscending(dets, 1..Len(dets))

sorted_detections(dets) == SortFrom(dets, 1..Len(dets))

\* (mutant) "distance <= threshold"
SimilarInclusive(dets, a, b) ==
    face_distance(dets[a].face_encoding, dets[b].face_encoding)
        <= face_grouping_threshold

\* the test "distance < self.face_grouping_threshold" of the inner loop
Similar(dets, a, b) ==
    face_distance(dets[a].face_encoding, dets[b].face_encoding)
        < face_grouping_threshold

\* (mutant) the inner loop stops at the first detection that is not similar
RECURSIVE MembersUntilMiss(_, _, _, _)
MembersUntilMiss(dets, anchor, rest, used) ==
    IF rest = <<>> THEN <<>>
    ELSE IF Head(rest) \in used
         THEN MembersUntilMiss(dets, anchor, Tail(rest), used)
         ELSE IF Similar(dets, anchor, Head(rest))
              THEN <<Head(rest)>>
                       \o MembersUntilMiss(dets, anchor, Tail(rest), used)
              ELSE <<>>

GroupMembersUntilMiss(dets, sorted, i, used) ==
    MembersUntilMiss(dets, sorted[i], SubSeq(sorted, i + 1, Len(sorted)), used)

\* the inner loop for anchor sorted[i]: the later, unused detections that
\* are similar to the anchor, in sorted order
GroupMembers(dets, sorted, i, used) ==
    SelectSeq(SubSeq(sorted, i + 1, Len(sorted)),
              LAMBDA o : o \notin used /\ Similar(dets, sorted[i], o))

SeqRange(q) == {q[k] : k \in 1..Len(q)}

\* (mutant) the members of a group are not marked as used
RECURSIVE GroupLoopForgetsUsed(_, _, _, _, _)
GroupLoopForgetsUsed(dets, sorted, i, used, groups) ==
    IF i > Len(sorted) THEN groups
    ELSE IF sorted[i] \in used
         THEN GroupLoopForgetsUsed(dets, sorted, i + 1, used, groups)
         ELSE LET members == GroupMembers(dets, sorted, i, used)
              IN  GroupLoopForgetsUsed(dets, sorted, i + 1,
                      used \cup {sorted[i]},
                      Append(groups, <<sorted[i]>> \o members))

\* the outer loop "for i, detection in enumerate(sorted_detections)"
RECURSIVE GroupLoop(_, _, _, _, _)
GroupLoop(dets, sorted, i, used, groups) ==
    IF i > Len(sorted) THEN groups
    ELSE IF sorted[i] \in used
         THEN GroupLoop(dets, sorted, i + 1, used, groups)
         ELSE LET members == GroupMembers(dets, sorted, i, used)
              IN  GroupLoop(dets, sorted, i + 1,
                      used \cup {sorted[i]} \cup SeqRange(members),
                      Append(groups, <<sorted[i]>> \o members))

group_faces_in_chunk(dets) ==
    IF dets = <<>> THEN <<>>
    ELSE GroupLoop(dets, sorted_detections(dets), 1, {}, <<>>)

\* (mutant) among equal confidences the last member wins
LastMaxOfGroup(dets, group) ==
    group[CHOOSE k \in 1..Len(group) : \A m \in 1..Len(group) :
              \/ dets[group[m]].confidence < dets[group[k]].confidence
              \/ dets[group[m]].confidence = dets[group[k]].confidence
                 /\ m <= k]

\* max(group, key=confidence): the first member of greatest confidence
get_best_detection_from_group(dets, group) ==
    IF Len(group) = 1 THEN group[1]
    ELSE group[CHOOSE k \in 1..Len(group) : \A m \in 1..Len(group) :
                  \/ dets[group[m]].confidence < dets[group[k]].confidence
                  \/ dets[group[m]].confidence = dets[group[k]].confidence
                     /\ k <= m]

BestOfGroups(dets, groups) ==
    [g \in 1..Len(groups) |-> get_best_detection_from_group(dets, groups[g])]

\* ---- grouping on its own: any list of detections of one chunk
InitGroup ==
    /\ pc = "group"
    /\ chunk_duration = chunk_duration_seconds
    /\ face_detections \in SeqsUpTo(FaceDetections(Encodings), MaxDetections)
    /\ profile_encodings = <<>>
    /\ duration = 0
    /\ num_chunks = 0
    /\ chunks = <<>>
    /\ video_chunks = None
    /\ chunk_pos = 0
    /\ face_groups = <<>>
    /\ best_detections = <<>>
    /\ match_results = <<>>
    /\ chunk_results = <<>>
    /\ requester_user_id = "R"
    /\ InitResults
    /\ InitService

GroupFaces ==
    /\ pc = "group"
    /\ face_groups' = group_faces_in_chunk(face_detections)
    /\ pc' = "grouped"
    /\ UNCHANGED <<chunk_duration, profile_encodings, duration, num_chunks,
                   chunks, video_chunks, chunk_pos, face_detections,
                   best_detections, match_results, chunk_results>>
    /\ UNCHANGED ResultVars
    /\ UNCHANGED ServiceVars

SelectBest ==
    /\ pc = "grouped"
    /\ best_detections' = BestOfGroups(face_detections, face_groups)
    /\ pc' = "selected"
    /\ UNCHANGED <<chunk_duration, profile_encodings, duration, num_chunks,
                   chunks, video_chunks, chunk_pos, face_detections,
                   face_groups, match_results, chunk_results>>
    /\ UNCHANGED ResultVars
    /\ UNCHANGED ServiceVars

NextGroup == GroupFaces \/ SelectBest

SpecGroup == InitGroup /\ [][NextGroup]_vars

\* ==================================================== Identity Matcher
\* The pool profile_encodings is a dict; its iteration order is the order of
\* insertion, so it is a sequence of [profile_id, face_encoding] with
\* distinct ids.
PoolEntries(E) == [profile_id : ProfileIds, face_encoding : E]

Pools(E, n) ==
    {p \in SeqsUpTo(PoolEntries(E), n) :
        \A a, b \in 1..Len(p) : a # b => p[a].profile_id # p[b].profile_id}

\* face_recognition.face_distance(known_encodings, face_encoding)
Distances(face_encoding, pool) ==
    [k \in 1..Len(pool) |->
        face_distance(pool[k].face_encoding, face_encoding)]

\* (mutant) the last index of the least distance
LastArgMin(distances) ==
    CHOOSE k \in 1..Len(distances) : \A m \in 1..Len(distances) :
        \/ distances[k] < distances[m]
        \/ distances[k] = distances[m] /\ m <= k

\* np.argmin(distances): the first index of the least distance
argmin(distances) ==
    CHOOSE k \in 1..Len(distances) : \A m \in 1..Len(distances) :
        \/ distances[k] < distances[m]
        \/ distances[k] = distances[m] /\ k <= m

MatchResult(id, conf) ==
    [profile_id |-> id, confidence |-> conf, is_existing_profile |-> TRUE]

match_face_to_profiles(face_encoding, pool) ==
    IF pool = <<>> THEN None
    ELSE LET distances == Distances(face_encoding, pool)
             min_distance_idx == argmin(distances)
             confidence == One - distances[min_distance_idx]
         IN  IF confidence >= face_match_threshold
             THEN Some(MatchResult(pool[min_distance_idx].profile_id,
                                   confidence))
             ELSE None

\* (mutant) "best_confidence > self.face_match_threshold"
match_face_strictly_above(face_encoding, pool) ==
    IF pool = <<>> THEN None
    ELSE LET distances == Distances(face_encoding, pool)
             min_distance_idx == argmin(distances)
             best_confidence == One - distances[min_distance_idx]
         IN  IF best_confidence > face_match_threshold
             THEN Some(MatchResult(pool[min_distance_idx].profile_id,
                                   best_confidence))
             ELSE None

\* the logging of all scores changes nothing; the decision is the same code
match_face_to_profiles_with_detailed_scores(face_encoding, pool) ==
    IF pool = <<>> THEN None
    ELSE LET distances == Distances(face_encoding, pool)
             min_distance_idx == argmin(distances)
             best_confidence == One - distances[min_distance_idx]
         IN  IF best_confidence >= face_match_threshold
             THEN Some(MatchResult(pool[min_distance_idx].profile_id,
                                   best_confidence))
             ELSE None

\* ---- matching on its own: any embedding against any pool
InitMatch ==
    /\ pc = "match"
    /\ chunk_duration = chunk_duration_seconds
    /\ face_detections \in {<<d>> : d \in FaceDetections(Encodings)}
    /\ profile_encodings \in Pools(Encodings, MaxPool)
    /\ duration = 0
    /\ num_chunks = 0
    /\ chunks = <<>>
    /\ video_chunks = None
    /\ chunk_pos = 0
    /\ face_groups = <<>>
    /\ best_detections = <<>>
    /\ match_results = <<>>
    /\ chunk_results = <<>>
    /\ requester_user_id = "R"
    /\ InitResults
    /\ InitService

MatchPlain ==
    /\ pc = "match"
    /\ match_results' = <<match_face_to_profiles(
                              face_detections[1].face_encoding,
                              profile_encodings)>>
    /\ pc' = "matched_plain"
    /\ UNCHANGED <<chunk_duration, profile_encodings, duration, num_chunks,
                   chunks, video_chunks, chunk_pos, face_detections,
                   face_groups, best_detections, chunk_results>>
    /\ UNCHANGED ResultVars
    /\ UNCHANGED ServiceVars

MatchDetailed ==
    /\ pc = "match"
    /\ match_results' = <<match_face_to_profiles_with_detailed_scores(
                              face_detections[1].face_encoding,
                              profile_encodings)>>
    /\ pc' = "matched_detailed"
    /\ UNCHANGED <<chunk_duration, profile_encodings, duration, num_chunks,
                   chunks, video_chunks, chunk_pos, face_detections,
                   face_groups, best_detections, chunk_results>>
    /\ UNCHANGED ResultVars
    /\ UNCHANGED ServiceVars

NextMatch == MatchPlain \/ MatchDetailed

SpecMatch == InitMatch /\ [][NextMatch]_vars

\* ================================================ Interaction Aggregator
\* chunk_results is a list of [chunk_index, profile_ids]; profile_ids is the
\* list made of the chunk's set of matched ids.  The result dict is the
\* sequence of its values in insertion order; an interactions dict is a
\* function whose domain is the keys that were ever incremented.

\* the lists that hold every element of the set S once
ListsOfSet(S) ==
    {q \in SeqsUpTo(S, Cardinality(S)) :
        /\ Len(q) = Cardinality(S)
        /\ \A a, b \in 1..Len(q) : a # b => q[a] # q[b]}

\* the profile ids in the order the loops over chunk_results meet them
RECURSIVE AllProfileIds(_)
AllProfileIds(results) ==
    IF results = <<>> THEN <<>>
    ELSE Head(results).profile_ids \o AllProfileIds(Tail(results))

\* the keys of profile_appearances in insertion order
RECURSIVE FirstSeen(_, _)
FirstSeen(q, seen) ==
    IF q = <<>> THEN <<>>
    ELSE IF Head(q) \in seen THEN FirstSeen(Tail(q), seen)
         ELSE <<Head(q)>> \o FirstSeen(Tail(q), seen \cup {Head(q)})

\* (mutant) the count of an id stops at the first chunk without it
RECURSIVE profile_appearances_run(_, _)
profile_appearances_run(results, id) ==
    IF results = <<>> THEN 0
    ELSE LET ids == Head(results).profile_ids
             n   == Cardinality({i \in 1..Len(ids) : ids[i] = id})
         IN  IF n = 0 THEN 0
             ELSE n + profile_appearances_run(Tail(results), id)

\* profile_appearances[id] after the loop: one more per entry of a list
RECURSIVE profile_appearances(_, _)
profile_appearances(results, id) ==
    IF results = <<>> THEN 0
    ELSE LET ids == Head(results).profile_ids
         IN  Cardinality({i \in 1..Len(ids) : ids[i] = id})
                 + profile_appearances(Tail(results), id)

\* (mutant) "for profile_id2 in profile_ids[i:]": an id is paired with itself
PairsWithSelf(ids, a, b) ==
    Cardinality({<<i, j>> \in (1..Len(ids)) \X (1..Len(ids)) :
                    i <= j /\ ids[i] = a /\ ids[j] = b})

\* the passes of "for i, id1 in enumerate(ids): for id2 in ids[i + 1:]" of
\* one chunk with id1 = a and id2 = b
Pairs(ids, a, b) ==
    Cardinality({<<i, j>> \in (1..Len(ids)) \X (1..Len(ids)) :
                    i < j /\ ids[i] = a /\ ids[j] = b})

\* (mutant) only profile_interactions[id1][id2] is incremented
RECURSIVE profile_interactions_one_way(_, _, _)
profile_interactions_one_way(results, a, b) ==
    IF results = <<>> THEN 0
    ELSE Pairs(Head(results).profile_ids, a, b)
             + profile_interactions_one_way(Tail(results), a, b)

\* profile_interactions[a][b] after the loop: each pass increments both
\* [id1][id2] and [id2][id1]
RECURSIVE profile_interactions(_, _, _)
profile_interactions(results, a, b) ==
    IF results = <<>> THEN 0
    ELSE Pairs(Head(results).profile_ids, a, b)
             + Pairs(Head(results).profile_ids, b, a)
             + profile_interactions(Tail(results), a, b)

\* profile_face_images.get(profile_id, [])
FaceImagesOf(images, id) == IF id \in DOMAIN images THEN images[id] ELSE <<>>

\* (mutant) the newest crops are kept: [-3:]
LastImages(q) == SubSeq(q, Len(q) - Min(MaxFaceImages, Len(q)) + 1, Len(q))

\* [:3]
FirstImages(q) == SubSeq(q, 1, Min(MaxFaceImages, Len(q)))

\* _calculate_profile_interactions (profile_name and profile_email left out)
calculate_profile_interactions(results, images) ==
    LET keys == FirstSeen(AllProfileIds(results), {})
    IN  [k \in 1..Len(keys) |->
            [profile_id        |-> keys[k],
             chunk_appearances |-> profile_appearances(results, keys[k]),
             interactions      |->
                 [b \in {x \in SeqRange(keys) :
                            profile_interactions(results, keys[k], x) > 0}
                     |-> profile_interactions(results, keys[k], b)],
             face_images       |-> FirstImages(FaceImagesOf(images, keys[k]))]]

\* ---- aggregation on its own: any list of per-chunk identity lists
AggregateIds == ProfileIds \cup {"C"}

\* the lists of distinct ids: what list(a set of ids) can be
IdLists == UNION {ListsOfSet(S) : S \in SUBSET AggregateIds}

ChunkResultLists ==
    {[k \in 1..Len(q) |-> [chunk_index |-> k - 1, profile_ids |-> q[k]]] :
        q \in SeqsUpTo(IdLists, MaxAggChunks)}

InitAggregate ==
    /\ pc = "calculate"
    /\ chunk_duration = chunk_duration_seconds
    /\ chunk_results \in ChunkResultLists
    /\ profile_encodings = <<>>
    /\ duration = 0
    /\ num_chunks = 0
    /\ chunks = <<>>
    /\ video_chunks = None
    /\ chunk_pos = 0
    /\ face_detections = <<>>
    /\ face_groups = <<>>
    /\ best_detections = <<>>
    /\ match_results = <<>>
    /\ requester_user_id = "R"
    /\ InitResults
    /\ InitService

CalculateInteractions ==
    /\ pc = "calculate"
    /\ interaction_results' =
           calculate_profile_interactions(chunk_results, profile_face_images)
    /\ pc' = "calculated"
    /\ UNCHANGED <<chunk_duration, profile_encodings, duration, num_chunks,
                   chunks, video_chunks, chunk_pos, face_detections,
                   face_groups, best_detections, match_results, chunk_results>>
    /\ UNCHANGED <<requester_user_id, profile_face_images, new_interactions,
                   store_video_ids, upserts>>
    /\ UNCHANGED ServiceVars

NextAggregate == CalculateInteractions

SpecAggregate == InitAggregate /\ [][NextAggregate]_vars

\* ================================================ Pipeline Orchestrator
\* analyze_video, step 1: the profiles are loaded and those with an encoding
\* make up the pool
LoadIdentities ==
    /\ pc = "load"
    /\ profile_encodings' \in Pools(SeedEncodings, MaxPool)
    /\ pc' = "download"
    /\ UNCHANGED <<chunk_duration, duration, num_chunks, chunks,
                   video_chunks, chunk_pos, face_detections, face_groups,
                   best_detections, match_results, chunk_results>>
    /\ UNCHANGED ResultVars
    /\ UNCHANGED ServiceVars

\* the identity store raises
LoadFails ==
    /\ pc = "load"
    /\ pc' = "failed_load"
    /\ UNCHANGED <<chunk_duration, profile_encodings, duration, num_chunks,
                   chunks, video_chunks, chunk_pos, face_detections,
                   face_groups, best_detections, match_results, chunk_results>>
    /\ UNCHANGED ResultVars
    /\ UNCHANGED ServiceVars

\* (mutant) a cluster without a match is entered as an unknown person
MatchedIdsOrUnknown(results) ==
    {IF results[g] # None THEN results[g][1].profile_id ELSE "unknown" :
        g \in 1..Len(results)}

\* the ids the loop over the groups adds to chunk_profile_ids
MatchedIds(results) ==
    {results[g][1].profile_id :
        g \in {h \in 1..Len(results) : results[h] # None}}

\* (mutant) the ids are appended once per matched cluster, without the set
ProfileIdListsPerCluster(results) ==
    {[k \in 1..Len(SelectSeq(results, LAMBDA r : r # None)) |->
         SelectSeq(results, LAMBDA r : r # None)[k][1].profile_id]}

\* list(chunk_profile_ids): the set's elements in an order of its own
ProfileIdLists(results) == ListsOfSet(MatchedIds(results))

\* (mutant) the chunks are taken from the end of the list
NextChunkFromEnd == video_chunks[1][Len(video_chunks[1]) - chunk_pos]

\* the element "for ... in chunks" yields next
NextChunk == video_chunks[1][chunk_pos + 1]

\* a face crop is named by the chunk and the cluster it was cut for
Crop(chunk_index, g) == <<chunk_index, g>>

\* profile_face_images after the appends of one pass; extracted holds the
\* clusters whose _extract_face_image gave an image (it decodes the chunk
\* again for every crop: it gives an image for every cluster of a chunk,
\* or None for every one)
WithCrops(images, results, extracted, chunk_index) ==
    [id \in DOMAIN images |->
        images[id] \o
        [k \in 1..Len(SelectSeq([g \in 1..Len(results) |-> g],
                          LAMBDA g : /\ g \in extracted
                                     /\ results[g] # None
                                     /\ results[g][1].profile_id = id))
            |-> Crop(chunk_index,
                     SelectSeq([g \in 1..Len(results) |-> g],
                          LAMBDA g : /\ g \in extracted
                                     /\ results[g] # None
                                     /\ results[g][1].profile_id = id)[k])]]

\* the matcher's answers for the representatives of the clusters
MatchAll(dets, bests, pool) ==
    [g \in 1..Len(bests) |->
        match_face_to_profiles_with_detailed_scores(
            dets[bests[g]].face_encoding, pool)]

\* one pass of "for chunk_id, chunk_data, chunk_index, ... in chunks":
\* detection, grouping, and per cluster the choice of the representative,
\* the crop, matching, the append to profile_face_images and
\* add_video_to_profile; then the append to chunk_results
ProcessChunk ==
    /\ pc = "chunk_loop"
    /\ chunk_pos < Len(video_chunks[1])
    /\ \E dets \in SeqsUpTo(FaceDetections(VideoEncodings), MaxChunkFaces) :
          LET groups  == group_faces_in_chunk(dets)
              bests   == BestOfGroups(dets, groups)
              results == MatchAll(dets, bests, profile_encodings)
              matched == {g \in 1..Len(results) : results[g] # None}
          IN  /\ face_detections' = dets
              /\ face_groups' = groups
              /\ best_detections' = bests
              /\ match_results' = results
              /\ \E extracted \in {matched, {}} :
                    profile_face_images' =
                        WithCrops(profile_face_images, results, extracted,
                                  NextChunk.chunk_index)
              /\ store_video_ids' = store_video_ids \cup MatchedIds(results)
              /\ \E ids \in ProfileIdLists(results) :
                    chunk_results' = Append(chunk_results,
                        [chunk_index |-> NextChunk.chunk_index,
                         profile_ids |-> ids])
    /\ chunk_pos' = chunk_pos + 1
    /\ pc' = "chunk_end"
    /\ UNCHANGED <<chunk_duration, profile_encodings, duration, num_chunks,
                   chunks, video_chunks>>
    /\ UNCHANGED <<requester_user_id, interaction_results, new_interactions,
                   upserts>>
    /\ UNCHANGED ServiceVars

\* back at the head of the loop: face_detections, face_groups,
\* best_detection and match_result of the finished pass are dead (the next
\* pass assigns them before it reads them) and are recorded as empty
NextIteration ==
    /\ pc = "chunk_end"
    /\ pc' = "chunk_loop"
    /\ face_detections' = <<>>
    /\ face_groups' = <<>>
    /\ best_detections' = <<>>
    /\ match_results' = <<>>
    /\ UNCHANGED <<chunk_duration, profile_encodings, duration, num_chunks,
                   chunks, video_chunks, chunk_pos, chunk_results>>
    /\ UNCHANGED ResultVars
    /\ UNCHANGED ServiceVars

\* a pass raises: in the frame extraction (failing = 0), or in the
\* add_video_to_profile of the matched cluster "failing", after the calls
\* for the clusters before it took effect.  The locals of the pass are lost
\* with the exception.
ChunkFails ==
    /\ pc = "chunk_loop"
    /\ chunk_pos < Len(video_chunks[1])
    /\ \E dets \in SeqsUpTo(FaceDetections(VideoEncodings), MaxChunkFaces) :
          LET groups  == group_faces_in_chunk(dets)
              bests   == BestOfGroups(dets, groups)
              results == MatchAll(dets, bests, profile_encodings)
          IN  \E failing \in 0..Len(results) :
                /\ failing > 0 => results[failing] # None
                /\ store_video_ids' = store_video_ids \cup
                       MatchedIds(SubSeq(results, 1, failing - 1))
    /\ pc' = "failed_chunk"
    /\ UNCHANGED <<chunk_duration, profile_encodings, duration, num_chunks,
                   chunks, video_chunks, chunk_pos, face_detections,
                   face_groups, best_detections, match_results, chunk_results>>
    /\ UNCHANGED <<requester_user_id, profile_face_images,
                   interaction_results, new_interactions, upserts>>
    /\ UNCHANGED ServiceVars

\* the loop over the chunks is over
ChunksDone ==
    /\ pc = "chunk_loop"
    /\ chunk_pos = Len(video_chunks[1])
    /\ pc' = "aggregate"
    /\ UNCHANGED <<chunk_duration, profile_encodings, duration, num_chunks,
                   chunks, video_chunks, chunk_pos, face_detections,
                   face_groups, best_detections, match_results, chunk_results>>
    /\ UNCHANGED ResultVars
    /\ UNCHANGED ServiceVars

\* step 4: interaction_results = self._calculate_profile_interactions(...)
Aggregate ==
    /\ pc = "aggregate"
    /\ interaction_results' =
           calculate_profile_interactions(chunk_results, profile_face_images)
    /\ pc' = "publish"
    /\ UNCHANGED <<chunk_duration, profile_encodings, duration, num_chunks,
                   chunks, video_chunks, chunk_pos, face_detections,
                   face_groups, best_detections, match_results, chunk_results>>
    /\ UNCHANGED <<requester_user_id, profile_face_images, new_interactions,
                   store_video_ids, upserts>>
    /\ UNCHANGED ServiceVars

\* (mutant) the first loop without "if detected_profile_id != requester"
RequesterInteractionsWithSelf(results, requester) ==
    [k \in 1..Len(results) |->
        [profile_1        |-> requester,
         profile_2        |-> results[k].profile_id,
         shared_chunks    |-> results[k].chunk_appearances,
         interaction_type |-> "requester_with_detected"]]

\* step 5, first loop: the requester with every detected profile but itself
RequesterInteractions(results, requester) ==
    LET others == SelectSeq(results, LAMBDA r : r.profile_id # requester)
    IN  [k \in 1..Len(others) |->
            [profile_1        |-> requester,
             profile_2        |-> others[k].profile_id,
             shared_chunks    |-> others[k].chunk_appearances,
             interaction_type |-> "requester_with_detected"]]

\* interaction_results[profile_id_1].interactions.get(profile_id_2, 0)
SharedChunks(r, id) ==
    IF id \in DOMAIN r.interactions THEN r.interactions[id] ELSE 0

\* (mutant) the second loop without the test "if shared_chunks > 0"
RECURSIVE ProfileInteractionsUnfiltered(_, _, _)
ProfileInteractionsUnfiltered(results, i, j) ==
    IF i > Len(results) THEN <<>>
    ELSE IF j > Len(results)
         THEN ProfileInteractionsUnfiltered(results, i + 1, i + 2)
    ELSE <<[profile_1        |-> results[i].profile_id,
            profile_2        |-> results[j].profile_id,
            shared_chunks    |->
                IF results[j].profile_id \in DOMAIN results[i].interactions
                THEN results[i].interactions[results[j].profile_id] ELSE 0,
            interaction_type |-> "detected_with_detected"]>>
         \o ProfileInteractionsUnfiltered(results, i, j + 1)

\* step 5, second loop: "for i, id1 in enumerate(ids): for id2 in ids[i+1:]"
RECURSIVE ProfileInteractions(_, _, _)
ProfileInteractions(results, i, j) ==
    IF i > Len(results) THEN <<>>
    ELSE IF j > Len(results) THEN ProfileInteractions(results, i + 1, i + 2)
    ELSE (IF SharedChunks(results[i], results[j].profile_id) > 0
          THEN <<[profile_1        |-> results[i].profile_id,
                  profile_2        |-> results[j].profile_id,
                  shared_chunks    |->
                      SharedChunks(results[i], results[j].profile_id),
                  interaction_type |-> "detected_with_detected"]>>
          ELSE <<>>)
         \o ProfileInteractions(results, i, j + 1)

\* the interactions step 5 records, in the order of its two loops
Interactions(results, requester) ==
    RequesterInteractions(results, requester)
        \o ProfileInteractions(results, 1, 2)

\* the upsert_interaction call made for a recorded interaction
UpsertCall(interaction) ==
    [uid1         |-> interaction.profile_1,
     uid2         |-> interaction.profile_2,
     increment_by |-> interaction.shared_chunks]

UpsertCalls(interactions) ==
    [k \in 1..Len(interactions) |-> UpsertCall(interactions[k])]

\* steps 5 and 6 and the return: every upsert succeeds
PublishInteractions ==
    /\ pc = "publish"
    /\ new_interactions' = Interactions(interaction_results, requester_user_id)
    /\ upserts' = UpsertCalls(Interactions(interaction_results,
                                           requester_user_id))
    /\ pc' = "done"
    /\ UNCHANGED <<chunk_duration, profile_encodings, duration, num_chunks,
                   chunks, video_chunks, chunk_pos, face_detections,
                   face_groups, best_detections, match_results, chunk_results>>
    /\ UNCHANGED <<requester_user_id, profile_face_images,
                   interaction_results, store_video_ids>>
    /\ UNCHANGED ServiceVars

\* step 5: the upsert_interaction call number "failing" raises after the
\* calls before it took effect
PublishFails ==
    /\ pc = "publish"
    /\ \E failing \in
            1..Len(Interactions(interaction_results, requester_user_id)) :
          LET done == SubSeq(Interactions(interaction_results,
                                          requester_user_id),
                             1, failing - 1)
          IN  /\ new_interactions' = done
              /\ upserts' = UpsertCalls(done)
    /\ pc' = "failed_publish"
    /\ UNCHANGED <<chunk_duration, profile_encodings, duration, num_chunks,
                   chunks, video_chunks, chunk_pos, face_detections,
                   face_groups, best_detections, match_results, chunk_results>>
    /\ UNCHANGED <<requester_user_id, profile_face_images,
                   interaction_results, store_video_ids>>
    /\ UNCHANGED ServiceVars

\* FacialRecognitionService builds VideoChunker(chunk_duration_seconds=5)
Init ==
    /\ pc = "load"
    /\ chunk_duration = chunk_duration_seconds
    /\ profile_encodings = <<>>
    /\ duration = 0
    /\ num_chunks = 0
    /\ chunks = <<>>
    /\ video_chunks = None
    /\ chunk_pos = 0
    /\ face_detections = <<>>
    /\ face_groups = <<>>
    /\ best_detections = <<>>
    /\ match_results = <<>>
    /\ chunk_results = <<>>
    /\ requester_user_id \in Requesters
    /\ InitResults
    /\ InitService

Next ==
    \/ LoadIdentities
    \/ LoadFails
    \/ download_video_from_url
    \/ DownloadFails
    \/ get_video_duration(VideoDurations)
    \/ ProbeFails
    \/ TranscodeChunk
    \/ TranscodeFails
    \/ SplitReturn
    \/ ProcessChunk
    \/ NextIteration
    \/ ChunkFails
    \/ ChunksDone
    \/ Aggregate
    \/ PublishInteractions
    \/ PublishFails

Spec == Init /\ [][Next]_vars

\* ================================= analyze_video, calls that do not return
\* requests.get(url) of get_all_profiles_with_photos has no timeout: a
\* store that accepts the connection and never answers blocks it for good
LoadHangs ==
    /\ pc = "load"
    /\ pc' = "blocked_load"
    /\ UNCHANGED <<PipelineVars, ServiceVars>>

\* requests.get(video_url, stream=True) has no timeout either
DownloadHangs ==
    /\ pc = "download"
    /\ pc' = "blocked_download"
    /\ UNCHANGED <<PipelineVars, ServiceVars>>

\* subprocess.run(ffprobe ..) is called without timeout=
ProbeHangs ==
    /\ pc = "probe"
    /\ pc' = "blocked_probe"
    /\ UNCHANGED <<PipelineVars, ServiceVars>>

\* subprocess.run(ffmpeg ..) is called without timeout=
TranscodeHangs ==
    /\ pc = "transcode"
    /\ Len(chunks) < num_chunks
    /\ pc' = "blocked_transcode"
    /\ UNCHANGED <<PipelineVars, ServiceVars>>

\* analyze_video waiting in a call that does not return
BlockedStates == {"blocked_load", "blocked_download", "blocked_probe",
                  "blocked_transcode"}

NextLive ==
    \/ LoadIdentities
    \/ LoadFails
    \/ LoadHangs
    \/ download_video_from_url
    \/ DownloadFails
    \/ DownloadHangs
    \/ get_video_duration(VideoDurations)
    \/ ProbeFails
    \/ ProbeHangs
    \/ TranscodeChunk
    \/ TranscodeFails
    \/ TranscodeHangs
    \/ SplitReturn
    \/ ProcessChunk
    \/ NextIteration
    \/ ChunkFails
    \/ ChunksDone
    \/ Aggregate
    \/ PublishInteractions
    \/ PublishFails

\* the thread of the invocation runs as long as it has a step to take
SpecLive == Init /\ [][NextLive]_vars /\ WF_vars(NextLive)

\* =========================================== two concurrent invocations
\* Two analyze_video invocations for different videos, in containers of
\* their own (max_containers=4).  What each computes it keeps in locals;
\* what they share is the store.  Each makes, for the profiles it matches,
\* the add_video_to_profile calls of step 3 and then an upsert_interaction
\* call of step 5.
Invocations == {1, 2}

\* video_id = str(uuid.uuid4())
VideoId(v) == IF v = 1 THEN "v1" ELSE "v2"

\* the profiles an invocation matches, in the order it meets them
MatchedLists == UNION {ListsOfSet(T) : T \in SUBSET ProfileIds}

OtherVars == <<PipelineVars, FrameVars, SeedVars, NotifyVars, ProcessVars>>

\* add_video_to_profile, first request: select video_ids of the profile
ReadVideoIds(v) ==
    /\ inv_pc[v] = "read"
    /\ inv_read' = [inv_read EXCEPT ![v] = db_video_ids[Head(inv_todo[v])]]
    /\ inv_pc' = [inv_pc EXCEPT ![v] = "write"]
    /\ UNCHANGED <<pc, inv_matched, inv_todo, db_video_ids, db_interactions>>
    /\ UNCHANGED OtherVars

\* add_video_to_profile, second request: if video_id is not in the list
\* that was read, the list with video_id appended replaces the column
WriteVideoIds(v) ==
    /\ inv_pc[v] = "write"
    /\ db_video_ids' =
           IF VideoId(v) \in SeqRange(inv_read[v]) THEN db_video_ids
           ELSE [db_video_ids EXCEPT ![Head(inv_todo[v])] =
                    Append(inv_read[v], VideoId(v))]
    /\ inv_todo' = [inv_todo EXCEPT ![v] =
                        IF Tail(inv_todo[v]) = <<>> THEN inv_matched[v]
                        ELSE Tail(inv_todo[v])]
    /\ inv_pc' = [inv_pc EXCEPT ![v] =
                      IF Tail(inv_todo[v]) = <<>> THEN "upsert" ELSE "read"]
    /\ UNCHANGED <<pc, inv_matched, inv_read, db_interactions>>
    /\ UNCHANGED OtherVars

\* upsert_interaction: one rpc, the database function adds increment_by
UpsertInteraction(v) ==
    /\ inv_pc[v] = "upsert"
    /\ db_interactions' =
           [db_interactions EXCEPT ![Head(inv_todo[v])] = @ + 1]
    /\ inv_todo' = [inv_todo EXCEPT ![v] = Tail(inv_todo[v])]
    /\ inv_pc' = [inv_pc EXCEPT ![v] =
                      IF Tail(inv_todo[v]) = <<>> THEN "done" ELSE "upsert"]
    /\ UNCHANGED <<pc, inv_matched, inv_read, db_video_ids>>
    /\ UNCHANGED OtherVars

InitConcurrent ==
    /\ pc = "concurrent"
    /\ InitPipelineIdle
    /\ InitFramesIdle
    /\ InitSeedIdle
    /\ InitNotifyIdle
    /\ InitProcessIdle
    /\ inv_matched \in [Invocations -> MatchedLists]
    /\ inv_todo = inv_matched
    /\ inv_pc = [v \in Invocations |->
                    IF inv_matched[v] = <<>> THEN "done" ELSE "read"]
    /\ inv_read = [v \in Invocations |-> <<>>]
    /\ db_video_ids = [id \in ProfileIds |-> <<>>]
    /\ db_interactions = [id \in ProfileIds |-> 0]

NextConcurrent ==
    \/ \E v \in Invocations : ReadVideoIds(v)
    \/ \E v \in Invocations : WriteVideoIds(v)
    \/ \E v \in Invocations : UpsertInteraction(v)

SpecConcurrent == InitConcurrent /\ [][NextConcurrent]_vars

\* ======================================================== process_video
\* (video-processing/app.py)  A chunk is (chunk_id, data, chunk_index,
\* start, end); chunk_id is a fresh uuid, here a number of its own.
ChunkLists ==
    {[n \in 1..Len(q) |-> [chunk_id |-> q[n], chunk_index |-> n - 1]] :
        q \in UNION {ListsOfSet(T) : T \in SUBSET (1..MaxVideoChunks)}}

\* HTTPException(status_code=500, ...) raised by "except Exception"
ErrorResponse == Some([status |-> 500])

PvOtherVars == <<PipelineVars, FrameVars, SeedVars, NotifyVars,
                 ConcurrentVars>>

\* validate_video is true and split_video returns the chunks;
\* transcribe_batch and generate_description catch what they raise
SplitForProcessing ==
    /\ pc = "pv_split"
    /\ pv_chunks' \in ChunkLists
    /\ pc' = "pv_upload"
    /\ UNCHANGED <<pv_i, chunk_ids, object_store, vector_index, pv_response>>
    /\ UNCHANGED PvOtherVars

\* the video is invalid (the HTTPException(400) is caught by the handler
\* below it) or split_video raises
SplitForProcessingFails ==
    /\ pc = "pv_split"
    /\ pv_response' = ErrorResponse
    /\ pc' = "pv_error"
    /\ UNCHANGED <<pv_chunks, pv_i, chunk_ids, object_store, vector_index>>
    /\ UNCHANGED PvOtherVars

\* storage_service.upload_video_chunk of chunk pv_i succeeds
UploadChunk ==
    /\ pc = "pv_upload"
    /\ pv_i < Len(pv_chunks)
    /\ object_store' = object_store \cup {pv_chunks[pv_i + 1].chunk_id}
    /\ pc' = "pv_index"
    /\ UNCHANGED <<pv_chunks, pv_i, chunk_ids, vector_index, pv_response>>
    /\ UNCHANGED PvOtherVars

\* (mutant) the handler deletes what the request has stored so far
UploadFailsRollsBack ==
    /\ pc = "pv_upload"
    /\ pv_i < Len(pv_chunks)
    /\ object_store' = {}
    /\ vector_index' = {}
    /\ pv_response' = ErrorResponse
    /\ pc' = "pv_error"
    /\ UNCHANGED <<pv_chunks, pv_i, chunk_ids>>
    /\ UNCHANGED PvOtherVars

\* upload_video_chunk raises (the PUT is not answered with 200): the
\* handler of process_video answers 500 and does nothing else
UploadFails ==
    /\ pc = "pv_upload"
    /\ pv_i < Len(pv_chunks)
    /\ pv_response' = ErrorResponse
    /\ pc' = "pv_error"
    /\ UNCHANGED <<pv_chunks, pv_i, chunk_ids, object_store, vector_index>>
    /\ UNCHANGED PvOtherVars

\* vector_db_service.upsert_video_chunk of chunk pv_i succeeds, then
\* "chunk_ids.append(chunk_id)"
IndexChunk ==
    /\ pc = "pv_index"
    /\ vector_index' = vector_index \cup {pv_chunks[pv_i + 1].chunk_id}
    /\ chunk_ids' = Append(chunk_ids, pv_chunks[pv_i + 1].chunk_id)
    /\ pv_i' = pv_i + 1
    /\ pc' = "pv_upload"
    /\ UNCHANGED <<pv_chunks, object_store, pv_response>>
    /\ UNCHANGED PvOtherVars

\* upsert_video_chunk raises: its index.upsert fails, or the call itself
\* does (the keyword text and the missing chunk_index, gcs_path,
\* start_time, end_time do not fit the signature in services/vector_db.py,
\* a TypeError); the chunk uploaded in this pass stays in the bucket
IndexFails ==
    /\ pc = "pv_index"
    /\ pv_response' = ErrorResponse
    /\ pc' = "pv_error"
    /\ UNCHANGED <<pv_chunks, pv_i, chunk_ids, object_store, vector_index>>
    /\ UNCHANGED PvOtherVars

\* the loop is over: ProcessVideoResponse(chunk_ids=chunk_ids,
\* total_chunks=len(chunks), ...)
Respond ==
    /\ pc = "pv_upload"
    /\ pv_i = Len(pv_chunks)
    /\ pv_response' = Some([status |-> 200, total_chunks |-> Len(pv_chunks),
                            chunk_ids |-> chunk_ids])
    /\ pc' = "pv_done"
    /\ UNCHANGED <<pv_chunks, pv_i, chunk_ids, object_store, vector_index>>
    /\ UNCHANGED PvOtherVars

InitProcess ==
    /\ pc = "pv_split"
    /\ InitPipelineIdle
    /\ InitFramesIdle
    /\ InitSeedIdle
    /\ InitNotifyIdle
    /\ InitConcurrentIdle
    /\ InitProcessIdle

NextProcess ==
    \/ SplitForProcessing
    \/ SplitForProcessingFails
    \/ UploadChunk
    \/ UploadFails
    \/ IndexChunk
    \/ IndexFails
    \/ Respond

SpecProcess == InitProcess /\ [][NextProcess]_vars

\* ====================================================== Identity Seeding
\* what a reference photo is to create_face_encoding_from_image: no image
\* data at all, an image without a face, an image with a face
ImageKinds == {"none", "no_face", "face"}

ProfileInputs == [profile_id : ProfileIds, image : ImageKinds]

\* the statuses process_profile_inputs gives
StatusSuccess == "success"
StatusNoImage == "error: no image data"
StatusNoFace == "error: No face found in the uploaded image"
StatusStore == "error: store"

\* processing_results[profile_id] = status
SetStatus(results, id, status) ==
    [k \in DOMAIN results \cup {id} |->
        IF k = id THEN status ELSE results[k]]

CurrentInput == profile_inputs[seed_i + 1]

\* the input has no image_data: the status is set, "continue"
SeedNoImage ==
    /\ pc = "seed"
    /\ seed_i < Len(profile_inputs)
    /\ CurrentInput.image = "none"
    /\ processing_results' = SetStatus(processing_results,
                                       CurrentInput.profile_id, StatusNoImage)
    /\ seed_i' = seed_i + 1
    /\ UNCHANGED <<pc, profile_inputs, stored_face_data>>
    /\ UNCHANGED <<PipelineVars, FrameVars, NotifyVars, ConcurrentVars,
                   ProcessVars>>

\* (mutant) the handler of a failed input leaves the loop
SeedNoFaceBreaks ==
    /\ pc = "seed"
    /\ seed_i < Len(profile_inputs)
    /\ CurrentInput.image = "no_face"
    /\ processing_results' = SetStatus(processing_results,
                                       CurrentInput.profile_id, StatusNoFace)
    /\ seed_i' = seed_i + 1
    /\ pc' = "seeded"
    /\ UNCHANGED <<profile_inputs, stored_face_data>>
    /\ UNCHANGED <<PipelineVars, FrameVars, NotifyVars, ConcurrentVars,
                   ProcessVars>>

\* create_face_encoding_from_image raises ValueError("No face found ..."):
\* "except Exception" sets the status of this input, "continue"
SeedNoFace ==
    /\ pc = "seed"
    /\ seed_i < Len(profile_inputs)
    /\ CurrentInput.image = "no_face"
    /\ processing_results' = SetStatus(processing_results,
                                       CurrentInput.profile_id, StatusNoFace)
    /\ seed_i' = seed_i + 1
    /\ UNCHANGED <<pc, profile_inputs, stored_face_data>>
    /\ UNCHANGED <<PipelineVars, FrameVars, NotifyVars, ConcurrentVars,
                   ProcessVars>>

\* the encoding is made but upsert_profile_face_data raises: same handler
SeedStoreFails ==
    /\ pc = "seed"
    /\ seed_i < Len(profile_inputs)
    /\ CurrentInput.image = "face"
    /\ processing_results' = SetStatus(processing_results,
                                       CurrentInput.profile_id, StatusStore)
    /\ seed_i' = seed_i + 1
    /\ UNCHANGED <<pc, profile_inputs, stored_face_data>>
    /\ UNCHANGED <<PipelineVars, FrameVars, NotifyVars, ConcurrentVars,
                   ProcessVars>>

\* the encoding is made and stored
SeedSuccess ==
    /\ pc = "seed"
    /\ seed_i < Len(profile_inputs)
    /\ CurrentInput.image = "face"
    /\ stored_face_data' = stored_face_data \cup {CurrentInput.profile_id}
    /\ processing_results' = SetStatus(processing_results,
                                       CurrentInput.profile_id, StatusSuccess)
    /\ seed_i' = seed_i + 1
    /\ UNCHANGED <<pc, profile_inputs>>
    /\ UNCHANGED <<PipelineVars, FrameVars, NotifyVars, ConcurrentVars,
                   ProcessVars>>

\* "return processing_results"
SeedReturn ==
    /\ pc = "seed"
    /\ seed_i = Len(profile_inputs)
    /\ pc' = "seeded"
    /\ UNCHANGED SeedVars
    /\ UNCHANGED <<PipelineVars, FrameVars, NotifyVars, ConcurrentVars,
                   ProcessVars>>

\* process_profile_inputs called with any batch
InitSeed ==
    /\ pc = "seed"
    /\ InitPipelineIdle
    /\ InitFramesIdle
    /\ InitNotifyIdle
    /\ InitConcurrentIdle
    /\ InitProcessIdle
    /\ profile_inputs \in SeqsUpTo(ProfileInputs, MaxProfileInputs)
    /\ seed_i = 0
    /\ processing_results = <<>>
    /\ stored_face_data = {}

NextSeed ==
    \/ SeedNoImage
    \/ SeedNoFace
    \/ SeedStoreFails
    \/ SeedSuccess
    \/ SeedReturn

SpecSeed == InitSeed /\ [][NextSeed]_vars

\* ============================================= Analysis Service Client
\* (video-processing/services/facial_recognition.py)
VideoUrls == {"u1", "u2"}

\* target_profiles: None, or a list of profile ids (maybe empty)
TargetProfiles ==
    {None} \cup {Some(q) : q \in SeqsUpTo(ProfileIds, MaxTargets)}

\* the JSON body: target_profiles is sent only "if target_profiles"
Payload(args) ==
    IF args.target_profiles # None /\ args.target_profiles[1] # <<>>
    THEN [requester_user_id |-> args.user_id,
          video_url         |-> args.video_url,
          target_profiles   |-> args.target_profiles[1]]
    ELSE [requester_user_id |-> args.user_id,
          video_url         |-> args.video_url]

\* what the service may answer
StatusCodes == {200, 500}

\* "await client.post(endpoint, json=payload, ...)" is started
PostRequest ==
    /\ pc = "notify"
    /\ posts' = Append(posts, Payload(notify_args))
    /\ pc' = "posting"
    /\ UNCHANGED <<notify_args, notify_log>>
    /\ UNCHANGED <<PipelineVars, FrameVars, SeedVars, ConcurrentVars,
                   ProcessVars>>

\* the response arrives: its status is logged, whatever it is
PostAnswered ==
    /\ pc = "posting"
    /\ \E code \in StatusCodes :
          notify_log' = Append(notify_log, [level |-> "info", status |-> code])
    /\ pc' = "notified"
    /\ UNCHANGED <<notify_args, posts>>
    /\ UNCHANGED <<PipelineVars, FrameVars, SeedVars, ConcurrentVars,
                   ProcessVars>>

\* (mutant) the TimeoutException reaches the caller
PostTimesOutRaises ==
    /\ pc = "posting"
    /\ pc' = "notify_raised"
    /\ UNCHANGED NotifyVars
    /\ UNCHANGED <<PipelineVars, FrameVars, SeedVars, ConcurrentVars,
                   ProcessVars>>

\* httpx.Timeout(5.0, connect=2.0) expires: "except httpx.TimeoutException"
\* logs a warning
PostTimesOut ==
    /\ pc = "posting"
    /\ notify_log' = Append(notify_log, [level |-> "warning", status |-> 0])
    /\ pc' = "notified"
    /\ UNCHANGED <<notify_args, posts>>
    /\ UNCHANGED <<PipelineVars, FrameVars, SeedVars, ConcurrentVars,
                   ProcessVars>>

\* the connection or anything else fails: "except Exception" logs an error
PostFails ==
    /\ pc = "posting"
    /\ notify_log' = Append(notify_log, [level |-> "error", status |-> 0])
    /\ pc' = "notified"
    /\ UNCHANGED <<notify_args, posts>>
    /\ UNCHANGED <<PipelineVars, FrameVars, SeedVars, ConcurrentVars,
                   ProcessVars>>

\* analyze_video_async called with any arguments
InitNotify ==
    /\ pc = "notify"
    /\ InitPipelineIdle
    /\ InitFramesIdle
    /\ InitSeedIdle
    /\ InitConcurrentIdle
    /\ InitProcessIdle
    /\ notify_args \in [user_id : Requesters, video_url : VideoUrls,
                         target_profiles : TargetProfiles]
    /\ posts = <<>>
    /\ notify_log = <<>>

NextNotify ==
    \/ PostRequest
    \/ PostAnswered
    \/ PostTimesOut
    \/ PostFails

\* the event loop runs the coroutine, and the timeout of the client ends
\* the await when nothing else does
SpecNotify == InitNotify /\ [][NextNotify]_vars /\ WF_vars(NextNotify)

\* ======================================================== Frame Sampler
\* A decoded frame: index is its place in the decoded sequence (from 0),
\* size 0 is a frame without pixels, faces the number of faces the
\* detection backend finds in it that pass the min_face_size filter.
Frames ==
    [size : {0}, faces : {0}] \cup [size : {1}, faces : 0..MaxFrameFaces]

\* extract_frames_from_video_chunk: the frames in decoding order
FrameLists ==
    {[n \in 1..Len(q) |-> [index |-> n - 1, size |-> q[n].size,
                           faces |-> q[n].faces]] :
        q \in SeqsUpTo(Frames, MaxFrames)}

\* the slice q[::k]: the first element, then every k-th after it
RECURSIVE Stride(_, _)
Stride(q, k) ==
    IF q = <<>> THEN <<>>
    ELSE <<Head(q)>> \o Stride(SubSeq(q, k + 1, Len(q)), k)

\* (mutant) the position in selected_frames is taken for the frame number
selected_frame_position(i, k) == i

\* "actual_frame_number = i * self.frame_skip"
actual_frame_number(i, k) == i * k

\* detect_faces_in_frame when the backend does not raise: nothing for a
\* frame without pixels, else one detection per face, each carrying the
\* frame_number it was called with
detect_faces_in_frame(frame, frame_number) ==
    IF frame.size = 0 THEN <<>>
    ELSE [f \in 1..frame.faces |->
             [frame_number |-> frame_number, frame |-> frame.index,
              face |-> f]]

\* the decoder returns the frames of the chunk; without frames
\* process_video_chunk_faces returns [] at once
ExtractFrames ==
    /\ pc = "extract"
    /\ frames' \in FrameLists
    /\ selected_frames' = Stride(frames', frame_skip)
    /\ pc' = IF frames' = <<>> THEN "frames_returned" ELSE "detect"
    /\ UNCHANGED <<frame_skip, frame_i, all_detections, detect_calls>>
    /\ UNCHANGED PipelineVars
    /\ UNCHANGED <<SeedVars, NotifyVars, ConcurrentVars, ProcessVars>>

\* extract_frames_from_video_chunk raises: so does process_video_chunk_faces
ExtractFails ==
    /\ pc = "extract"
    /\ pc' = "frames_failed"
    /\ UNCHANGED FrameVars
    /\ UNCHANGED PipelineVars
    /\ UNCHANGED <<SeedVars, NotifyVars, ConcurrentVars, ProcessVars>>

\* the effect of one pass of "for i, frame in enumerate(selected_frames)"
\* in which detect_faces_in_frame returned detections
Pass(detections, raised) ==
    LET frame == selected_frames[frame_i + 1]
    IN  /\ detect_calls' =
               Append(detect_calls,
                      [frame        |-> frame.index,
                       frame_number |->
                           actual_frame_number(frame_i, frame_skip),
                       raised       |-> raised,
                       returned     |-> Len(detections)])
        /\ all_detections' = all_detections \o detections
        /\ frame_i' = frame_i + 1
        /\ UNCHANGED <<pc, frame_skip, frames, selected_frames>>
        /\ UNCHANGED PipelineVars
        /\ UNCHANGED <<SeedVars, NotifyVars, ConcurrentVars, ProcessVars>>

\* a pass in which the backend does not raise
DetectFaces ==
    /\ pc = "detect"
    /\ frame_i < Len(selected_frames)
    /\ Pass(detect_faces_in_frame(selected_frames[frame_i + 1],
                actual_frame_number(frame_i, frame_skip)), FALSE)

\* (mutant) the backend's exception leaves process_video_chunk_faces
DetectRaisesAborts ==
    /\ pc = "detect"
    /\ frame_i < Len(selected_frames)
    /\ pc' = "frames_failed"
    /\ detect_calls' =
           Append(detect_calls,
                  [frame        |-> selected_frames[frame_i + 1].index,
                   frame_number |->
                       actual_frame_number(frame_i, frame_skip),
                   raised       |-> TRUE,
                   returned     |-> 0])
    /\ UNCHANGED <<frame_skip, frames, selected_frames, frame_i,
                   all_detections>>
    /\ UNCHANGED PipelineVars
    /\ UNCHANGED <<SeedVars, NotifyVars, ConcurrentVars, ProcessVars>>

\* a pass in which the backend raises inside detect_faces_in_frame, whose
\* "except Exception" returns []
DetectRaises ==
    /\ pc = "detect"
    /\ frame_i < Len(selected_frames)
    /\ Pass(<<>>, TRUE)

\* the loop is over: "return all_detections"
FramesReturn ==
    /\ pc = "detect"
    /\ frame_i = Len(selected_frames)
    /\ pc' = "frames_returned"
    /\ UNCHANGED FrameVars
    /\ UNCHANGED PipelineVars
    /\ UNCHANGED <<SeedVars, NotifyVars, ConcurrentVars, ProcessVars>>

\* process_video_chunk_faces called on a chunk, for any stride >= 1
InitFrames ==
    /\ pc = "extract"
    /\ InitPipelineIdle
    /\ frame_skip \in 1..MaxFrameSkip
    /\ frames = <<>>
    /\ selected_frames = <<>>
    /\ frame_i = 0
    /\ all_detections = <<>>
    /\ detect_calls = <<>>
    /\ InitSeedIdle
    /\ InitNotifyIdle
    /\ InitConcurrentIdle
    /\ InitProcessIdle

NextFrames ==
    \/ ExtractFrames
    \/ ExtractFails
    \/ DetectFaces
    \/ DetectRaises
    \/ FramesReturn

SpecFrames == InitFrames /\ [][NextFrames]_vars

\* ------------------------------------------------------------------ C3
\* C3: when the duration probe or the transcode of a chunk fails, the call
\* ends in failure for good, the caller has received no chunk list (the
\* chunks made before the failure are not handed over) and analyze_video has
\* processed no chunk.
C3_FailedSplitReturnsNothing ==
    /\ [](pc \in {"failed_probe", "failed_transcode"} =>
             /\ video_chunks = None
             /\ chunk_pos = 0
             /\ chunk_results = <<>>)
    /\ [][(pc \in {"failed_probe", "failed_transcode"}) => (pc' = pc)]_vars

\* the transcode of the second chunk failed after the first was made
C3_Witness ==
    /\ pc = "failed_transcode"
    /\ Len(chunks) = 1
    /\ num_chunks = 2
    /\ video_chunks = None

\* ------------------------------------------------------------ C4 .. C7
Grouped == pc \in {"grouped", "selected"}

Closer(dets, a, b) ==
    face_distance(dets[a].face_encoding, dets[b].face_encoding)
        < face_grouping_threshold

\* how often detection o occurs in the groups
Occurrences(groups, o) ==
    Cardinality({<<g, k>> \in (1..Len(groups)) \X (1..Len(face_detections)) :
                    k <= Len(groups[g]) /\ groups[g][k] = o})

\* C4: the clusters group_faces_in_chunk returns partition its input: every
\* detection is in exactly one cluster, no cluster is empty, every member is
\* a detection of the input; no detections give no clusters.
C4_GroupsPartitionInput ==
    Grouped =>
        /\ \A o \in 1..Len(face_detections) :
               Occurrences(face_groups, o) = 1
        /\ \A g \in 1..Len(face_groups) :
               /\ Len(face_groups[g]) >= 1
               /\ SeqRange(face_groups[g]) \subseteq 1..Len(face_detections)
        /\ face_detections = <<>> => face_groups = <<>>

\* three detections were put into two clusters, one of them of two members
C4_Witness ==
    /\ Grouped
    /\ Len(face_detections) = 3
    /\ Len(face_groups) = 2
    /\ \E g \in 1..Len(face_groups) : Len(face_groups[g]) = 2

\* C5: every member of a cluster other than its anchor (its first element)
\* is at a distance strictly below face_grouping_threshold from the anchor,
\* so a detection at exactly the threshold from an anchor is not in that
\* anchor's cluster.
C5_MembersCloseToAnchor ==
    Grouped =>
        \A g \in 1..Len(face_groups) : \A k \in 2..Len(face_groups[g]) :
            Closer(face_detections, face_groups[g][1], face_groups[g][k])

\* a cluster with two members that are at the threshold from each other,
\* each of them closer than that to the anchor
C5_Witness ==
    /\ Grouped
    /\ \E g \in 1..Len(face_groups) :
          \E k, m \in 2..Len(face_groups[g]) :
              face_distance(face_detections[face_groups[g][k]].face_encoding,
                            face_detections[face_groups[g][m]].face_encoding)
                  = face_grouping_threshold

\* C6: the representative of a cluster is a member of greatest confidence,
\* the first such member of the cluster, and it is the cluster's anchor.
C6_BestIsFirstMaxAndAnchor ==
    pc = "selected" =>
        \A g \in 1..Len(face_groups) :
            LET grp == face_groups[g]
                b   == best_detections[g]
            IN  /\ b \in SeqRange(grp)
                /\ \A k \in 1..Len(grp) :
                      face_detections[grp[k]].confidence
                          <= face_detections[b].confidence
                /\ \A k \in 1..Len(grp) :
                      grp[k] = b =>
                          \A m \in 1..(k - 1) :
                              face_detections[grp[m]].confidence
                                  < face_detections[b].confidence
                /\ b = grp[1]

\* a cluster of several members that share the greatest confidence
C6_Witness ==
    /\ pc = "selected"
    /\ \E g \in 1..Len(face_groups) :
          /\ Len(face_groups[g]) >= 2
          /\ face_detections[face_groups[g][2]].confidence
                = face_detections[face_groups[g][1]].confidence
          /\ best_detections[g] = face_groups[g][1]

\* the orderings of dets that differ from it only in the relative order of
\* detections of equal confidence
EqualQualityReorderings(dets) ==
    LET n == Len(dets)
        keeps(p) == \A a, b \in 1..n :
                       (a < b /\ dets[a].confidence # dets[b].confidence)
                           => \A x, y \in 1..n :
                                 (p[x] = a /\ p[y] = b) => x < y
    IN  {[k \in 1..n |-> dets[p[k]]] :
            p \in {q \in Permutations(1..n) : keeps(q)}}

\* "closer than the threshold" is transitive on the detections
ClosenessTransitive(dets) ==
    \A a, b, c \in 1..Len(dets) :
        (Closer(dets, a, b) /\ Closer(dets, b, c)) => Closer(dets, a, c)

\* C7 as claimed: two orderings that differ only in the order of detections
\* of equal confidence always give the same number of clusters.
C7_SameCountUnderTieReordering ==
    Grouped =>
        \A other \in EqualQualityReorderings(face_detections) :
            Len(group_faces_in_chunk(other)) = Len(face_groups)

\* C7 as amended: when, on the detections of the chunk, being closer than
\* face_grouping_threshold is transitive, two orderings that differ only in
\* the order of detections of equal confidence give the same number of
\* clusters.
C7_SameCountWhenTransitive ==
    (Grouped /\ ClosenessTransitive(face_detections)) =>
        \A other \in EqualQualityReorderings(face_detections) :
            Len(group_faces_in_chunk(other)) = Len(face_groups)

\* a transitive chunk with a real reordering of equal confidences, in which
\* detections were merged
C7_Witness ==
    /\ Grouped
    /\ ClosenessTransitive(face_detections)
    /\ Len(face_groups) < Len(face_detections)
    /\ Len(face_groups) >= 2
    /\ \E other \in EqualQualityReorderings(face_detections) :
          /\ other # face_detections
          /\ group_faces_in_chunk(other) # face_groups

\* ------------------------------------------------------------ C8, C9
Matched == pc \in {"matched_plain", "matched_detailed"}

LeastDistance(face_encoding, pool) ==
    CHOOSE d \in {face_distance(pool[k].face_encoding, face_encoding) :
                     k \in 1..Len(pool)} :
        \A k \in 1..Len(pool) :
            d <= face_distance(pool[k].face_encoding, face_encoding)

\* the pool entry of an id
EntryOf(pool, id) == pool[CHOOSE k \in 1..Len(pool) : pool[k].profile_id = id]

\* C8: with a non-empty pool the matcher returns a match exactly when
\* 1 - (least distance to a pool identity) >= face_match_threshold, equality
\* included; the identity returned is at least distance and the confidence
\* returned is 1 - that distance.  With an empty pool it returns no match.
C8_MatchIffConfidenceClearsThreshold ==
    Matched =>
        LET enc  == face_detections[1].face_encoding
            pool == profile_encodings
            res  == match_results[1]
        IN  IF pool = <<>> THEN res = None
            ELSE LET least == LeastDistance(enc, pool)
                 IN  /\ res # None <=> One - least >= face_match_threshold
                     /\ res # None =>
                          /\ res[1].profile_id \in
                                 {pool[k].profile_id : k \in 1..Len(pool)}
                          /\ face_distance(
                                 EntryOf(pool, res[1].profile_id).face_encoding,
                                 enc) = least
                          /\ res[1].confidence = One - least

\* a match whose confidence is exactly face_match_threshold
C8_Witness ==
    /\ Matched
    /\ match_results[1] # None
    /\ match_results[1][1].confidence = face_match_threshold
    /\ Len(profile_encodings) = 2

\* C9: when several pool identities are at the same least distance, the
\* matcher returns the one that comes first in the pool's iteration order.
C9_TieGoesToFirstInPoolOrder ==
    (Matched /\ match_results[1] # None) =>
        LET enc   == face_detections[1].face_encoding
            pool  == profile_encodings
            least == LeastDistance(enc, pool)
        IN  \A k \in 1..Len(pool) :
                pool[k].profile_id = match_results[1][1].profile_id =>
                    \A m \in 1..(k - 1) :
                        face_distance(pool[m].face_encoding, enc) > least

\* two pool identities at the same least distance; the first was returned
C9_Witness ==
    /\ Matched
    /\ match_results[1] # None
    /\ Len(profile_encodings) = 2
    /\ profile_encodings[1].face_encoding # profile_encodings[2].face_encoding
    /\ face_distance(profile_encodings[1].face_encoding,
                     face_detections[1].face_encoding)
         = face_distance(profile_encodings[2].face_encoding,
                         face_detections[1].face_encoding)
    /\ match_results[1][1].profile_id = profile_encodings[1].profile_id

\* ----------------------------------------------------------------- C10
\* C10: a representative that matches no pool identity and whose quality is
\* at least new_contact_threshold gets a new identity: the result is a match
\* that is not an existing profile, the identity is in the pool and in the
\* chunk's identity set.
C10_UnmatchedGoodFaceBecomesIdentity ==
    pc = "chunk_end" =>
        \A g \in 1..Len(face_groups) :
            LET best == face_detections[best_detections[g]]
                res  == match_results[g]
                existing == res # None /\ res[1].is_existing_profile
            IN  (~existing /\ best.confidence >= new_contact_threshold) =>
                    /\ res # None
                    /\ \E k \in 1..Len(profile_encodings) :
                          /\ profile_encodings[k].profile_id
                                 = res[1].profile_id
                          /\ profile_encodings[k].face_encoding
                                 = best.face_encoding
                    /\ res[1].profile_id
                           \in SeqRange(chunk_results[chunk_pos].profile_ids)

\* ------------------------------------------------------------ C1, C2
\* ceil(d / c) stated without the code's formula
CeilDiv(d, c) == CHOOSE n \in 0..(d + 1) : n * c >= d /\ (n - 1) * c < d

ChunkDuration(ch) == ch.end_time - ch.start_time

RECURSIVE DurationSum(_)
DurationSum(cs) ==
    IF cs = <<>> THEN 0 ELSE ChunkDuration(Head(cs)) + DurationSum(Tail(cs))

\* C1: for every duration d >= 0 and chunk length c > 0 the list
\* split_video returns has exactly ceil(d / c) chunks: none for d = 0, d / c
\* for an exact multiple.
C1_ChunkCountIsCeil ==
    video_chunks # None =>
        Len(video_chunks[1]) = CeilDiv(duration, chunk_duration)

\* a video of exactly two chunk lengths was split into two chunks
C1_Witness ==
    /\ video_chunks # None
    /\ chunk_duration = chunk_duration_seconds
    /\ duration = 2 * chunk_duration
    /\ Len(video_chunks[1]) = 2

\* C2: a returned list of N >= 1 chunks has indices 0..N-1 in order, chunk i
\* spans [i*c, min((i+1)*c, d)], all chunks but the last last exactly c,
\* every chunk has positive duration and the durations sum to d.
C2_ChunksTileTheVideo ==
    (video_chunks # None /\ Len(video_chunks[1]) >= 1) =>
        LET cs == video_chunks[1]
            N  == Len(cs)
        IN  /\ \A k \in 1..N :
                  /\ cs[k].chunk_index = k - 1
                  /\ cs[k].start_time = (k - 1) * chunk_duration
                  /\ cs[k].end_time = Min(k * chunk_duration, duration)
                  /\ ChunkDuration(cs[k]) > 0
                  /\ k < N => ChunkDuration(cs[k]) = chunk_duration
            /\ DurationSum(cs) = duration

\* a three-chunk list whose last chunk is shorter than the others
C2_Witness ==
    /\ video_chunks # None
    /\ chunk_duration = chunk_duration_seconds
    /\ Len(video_chunks[1]) = 3
    /\ ChunkDuration(video_chunks[1][3]) < chunk_duration

\* ----------------------------------------------------------- C11, C12
\* the representative of cluster g of the pass just finished
Representative(g) == face_detections[best_detections[g]]

\* no identity of the pool clears face_match_threshold for cluster g
MatchesNoIdentity(g) ==
    \/ profile_encodings = <<>>
    \/ One - LeastDistance(Representative(g).face_encoding, profile_encodings)
           < face_match_threshold

\* the clusters of the pass just finished that are to become identities
Discovered ==
    {g \in 1..Len(face_groups) :
        /\ MatchesNoIdentity(g)
        /\ Representative(g).confidence >= new_contact_threshold}

\* C11: an identity discovered while chunk i is processed is in the pool the
\* matcher is given for the chunks after i: when the loop goes on to the
\* next chunk, the pool holds an identity with the embedding of every
\* representative that matched nothing and was good enough.
C11_DiscoveredIdentityInLaterPool ==
    [][(/\ pc = "chunk_end"
        /\ pc' = "chunk_loop"
        /\ chunk_pos < Len(video_chunks[1]))
       => \A g \in Discovered :
              \E k \in 1..Len(profile_encodings') :
                  profile_encodings'[k].face_encoding
                      = Representative(g).face_encoding]_vars

\* the results are in: aggregation has returned
Aggregated == pc \in {"publish", "done", "failed_publish"}

ResultIds == {interaction_results[k].profile_id :
                 k \in 1..Len(interaction_results)}

PoolIds == {profile_encodings[k].profile_id :
               k \in 1..Len(profile_encodings)}

\* C12: a cluster whose representative matches no pool identity and whose
\* quality is below new_contact_threshold produces no match, is not in the
\* chunk's identity set (which holds the ids of the other, matched clusters
\* only) and gets no face crop; the final result holds only ids of chunk
\* identity sets, which are pool ids.  With an empty pool the identity set
\* of a chunk of such clusters is empty.
C12_LowQualityUnmatchedIsDropped ==
    /\ pc = "chunk_end" =>
          \A g \in 1..Len(face_groups) :
              (/\ MatchesNoIdentity(g)
               /\ Representative(g).confidence < new_contact_threshold)
              => /\ match_results[g] = None
                 /\ SeqRange(chunk_results[chunk_pos].profile_ids)
                      = {match_results[h][1].profile_id :
                            h \in {x \in 1..Len(face_groups) :
                                      x # g /\ match_results[x] # None}}
                 /\ SeqRange(chunk_results[chunk_pos].profile_ids)
                        \subseteq PoolIds
                 /\ \A id \in DOMAIN profile_face_images :
                        Crop(chunk_results[chunk_pos].chunk_index, g)
                            \notin SeqRange(profile_face_images[id])
    /\ Aggregated =>
          /\ ResultIds \subseteq PoolIds
          /\ ResultIds = UNION {SeqRange(chunk_results[c].profile_ids) :
                                   c \in 1..Len(chunk_results)}

\* next to a matched cluster, a cluster of quality 0.2 that matches nothing
C12_Witness ==
    /\ pc = "chunk_end"
    /\ Len(face_groups) = 2
    /\ \E g \in 1..2 :
          /\ match_results[g] = None
          /\ Representative(g).confidence < new_contact_threshold
          /\ match_results[3 - g] # None
    /\ Len(chunk_results[chunk_pos].profile_ids) = 1
    /\ \E id \in ProfileIds : Len(profile_face_images[id]) = 1

\* ----------------------------------------------------------------- C13
\* the chunks whose identity set holds id
ChunksWith(id) ==
    {c \in 1..Len(chunk_results) :
        id \in SeqRange(chunk_results[c].profile_ids)}

\* C13: for every identity of the result, chunk_appearances is the number
\* of chunks whose identity set holds it (a chunk counts once, however many
\* of its clusters matched the identity), at least 1 and at most the number
\* of chunks; every identity of an identity set is in the result once.
C13_AppearancesCountChunks ==
    Aggregated =>
        /\ \A k \in 1..Len(interaction_results) :
              LET r == interaction_results[k]
              IN  /\ r.chunk_appearances
                      = Cardinality(ChunksWith(r.profile_id))
                  /\ r.chunk_appearances >= 1
                  /\ r.chunk_appearances <= Len(video_chunks[1])
        /\ \A k, m \in 1..Len(interaction_results) :
              interaction_results[k].profile_id
                  = interaction_results[m].profile_id => k = m

\* two chunks; two clusters of one of them matched the identity, which
\* appears in that chunk only
C13_Witness ==
    /\ pc = "done"
    /\ Len(video_chunks[1]) = 2
    /\ \E k \in 1..Len(interaction_results) :
          /\ interaction_results[k].chunk_appearances = 1
          /\ Len(profile_face_images[interaction_results[k].profile_id]) = 2

\* ------------------------------------------------------ C14, C15, C17
Calculated == pc = "calculated"

\* the result entry of an id
ResultOf(results, id) ==
    results[CHOOSE k \in 1..Len(results) : results[k].profile_id = id]

\* the chunks whose identity set holds both a and b
ChunksWithBoth(a, b) == ChunksWith(a) \cap ChunksWith(b)

\* C14: for two distinct identities a and b of the result,
\* co_occurrences[a][b] is the number of chunks whose identity set holds
\* both; the entry is absent exactly when that number is 0; no identity has
\* an entry with itself, and every entry is for an identity of the result.
C14_CoOccurrencesCountSharedChunks ==
    Calculated =>
        \A a \in ResultIds :
            LET co == ResultOf(interaction_results, a).interactions
            IN  /\ a \notin DOMAIN co
                /\ DOMAIN co \subseteq ResultIds
                /\ \A b \in ResultIds \ {a} :
                      /\ b \in DOMAIN co
                            <=> Cardinality(ChunksWithBoth(a, b)) > 0
                      /\ b \in DOMAIN co
                            => co[b] = Cardinality(ChunksWithBoth(a, b))

\* chunk0 = {A}, chunk1 = {A, B}: appearances A = 2, B = 1, A-B = 1
C14_Witness ==
    /\ Calculated
    /\ Len(chunk_results) = 2
    /\ chunk_results[1].profile_ids = <<"A">>
    /\ SeqRange(chunk_results[2].profile_ids) = {"A", "B"}
    /\ ResultOf(interaction_results, "A").chunk_appearances = 2
    /\ ResultOf(interaction_results, "B").chunk_appearances = 1
    /\ ResultOf(interaction_results, "A").interactions["B"] = 1
    /\ ResultOf(interaction_results, "B").interactions["A"] = 1

\* C15: after the aggregation co_occurrences[a][b] = co_occurrences[b][a]
\* for every two identities of the result, and one of the two entries is
\* present exactly when the other is.
C15_CoOccurrencesSymmetric ==
    Calculated =>
        \A a, b \in ResultIds :
            LET ab == ResultOf(interaction_results, a).interactions
                ba == ResultOf(interaction_results, b).interactions
            IN  /\ b \in DOMAIN ab <=> a \in DOMAIN ba
                /\ b \in DOMAIN ab => ab[b] = ba[a]

\* three identities that share chunks, listed in different orders
C15_Witness ==
    /\ Calculated
    /\ Len(chunk_results) = 2
    /\ chunk_results[1].profile_ids = <<"B", "A", "C">>
    /\ chunk_results[2].profile_ids = <<"C", "B">>
    /\ ResultOf(interaction_results, "A").interactions["B"] = 1
    /\ ResultOf(interaction_results, "C").interactions["B"] = 2
    /\ ResultOf(interaction_results, "B").interactions["C"] = 2

\* the chunk results in the order p
Reordered(results, p) == [k \in 1..Len(results) |-> results[p[k]]]

\* the counts of a result, without the order of its entries
Counts(results) ==
    {[profile_id        |-> results[k].profile_id,
      chunk_appearances |-> results[k].chunk_appearances,
      interactions      |-> results[k].interactions] :
        k \in 1..Len(results)}

\* C17: for every permutation of the list of chunk results the aggregation
\* returns the same chunk_appearances and the same co_occurrences for every
\* identity.
C17_CountsInvariantUnderChunkOrder ==
    Calculated =>
        \A p \in Permutations(1..Len(chunk_results)) :
            Counts(calculate_profile_interactions(
                       Reordered(chunk_results, p), profile_face_images))
                = Counts(interaction_results)

\* a reordering that changes the order of the result's entries, not the
\* counts, of identities with different counts
C17_Witness ==
    /\ Calculated
    /\ Len(chunk_results) = 2
    /\ Len(interaction_results) = 3
    /\ \E k \in 1..3 : interaction_results[k].chunk_appearances = 2
    /\ \E k \in 1..3 : interaction_results[k].chunk_appearances = 1
    /\ \E p \in Permutations(1..2) :
          calculate_profile_interactions(
              Reordered(chunk_results, p), profile_face_images)
              # interaction_results

\* ----------------------------------------------------------------- C16
\* crop x was collected before crop y: earlier chunk, or the same chunk and
\* an earlier cluster
CropBefore(x, y) == x[1] < y[1] \/ (x[1] = y[1] /\ x[2] < y[2])

\* C16: the crops collected for an identity are in chunk order, then
\* cluster order, each from a chunk whose identity set holds the identity;
\* the result holds at most 3 of them, the first ones: crops collected
\* after the third are not returned.
C16_FirstThreeCrops ==
    /\ \A id \in DOMAIN profile_face_images :
          LET collected == profile_face_images[id]
          IN  /\ \A k, m \in 1..Len(collected) :
                    k < m => CropBefore(collected[k], collected[m])
              /\ \A k \in 1..Len(collected) :
                    id \in SeqRange(
                        chunk_results[collected[k][1] + 1].profile_ids)
    /\ Aggregated =>
          \A k \in 1..Len(interaction_results) :
              LET r == interaction_results[k]
                  collected == profile_face_images[r.profile_id]
              IN  /\ Len(r.face_images) <= MaxFaceImages
                  /\ Len(r.face_images) = Min(MaxFaceImages, Len(collected))
                  /\ \A m \in 1..Len(r.face_images) :
                        r.face_images[m] = collected[m]

\* four crops were collected for an identity, three of them are returned
C16_Witness ==
    /\ pc = "done"
    /\ \E k \in 1..Len(interaction_results) :
          LET r == interaction_results[k]
          IN  /\ Len(profile_face_images[r.profile_id]) = 4
              /\ r.face_images = <<Crop(0, 1), Crop(0, 2), Crop(1, 1)>>

\* ----------------------------------------------------------- C18, C19
FailedStates == {"failed_load", "failed_download", "failed_probe",
                 "failed_transcode", "failed_chunk", "failed_publish"}

\* LOADING_IDENTITIES, SEGMENTING, PER_CHUNK_PROCESSING, AGGREGATING, DONE
\* are phases 1 to 5, FAILED is phase 6
Phase(p) ==
    CASE p = "load" -> 1
      [] p \in {"download", "probe", "transcode"} -> 2
      [] p \in {"chunk_loop", "chunk_end"} -> 3
      [] p \in {"aggregate", "publish"} -> 4
      [] p = "done" -> 5
      [] p \in FailedStates -> 6

\* C18: an invocation goes through loading, segmenting, chunk processing,
\* aggregating and done in that order, one phase after the other and never
\* back; a failure leads from one of the first four phases to FAILED; after
\* DONE and after FAILED nothing runs.
C18_PhasesInOrder ==
    [][/\ Phase(pc) \notin {5, 6}
       /\ \/ Phase(pc') = Phase(pc)
          \/ Phase(pc') = Phase(pc) + 1
          \/ Phase(pc') = 6]_vars

\* the invocation failed in its last phase, after all chunks were processed
C18_Witness ==
    /\ pc = "failed_publish"
    /\ Len(chunk_results) = 2
    /\ Len(interaction_results) >= 1

\* C19: the chunks are processed in ascending index order, each once: the
\* k-th pass is for chunk k - 1, a pass is one step that detects, clusters
\* and matches for the next chunk of the list and for no other, and when
\* the loop is over every chunk of the list has had its pass.
C19_ChunksInIndexOrder ==
    /\ [](/\ Len(chunk_results) = chunk_pos
          /\ \A k \in 1..Len(chunk_results) :
                chunk_results[k].chunk_index = k - 1
          /\ Phase(pc) \in {4, 5} =>
                Len(chunk_results) = Len(video_chunks[1]))
    /\ [][(chunk_results' # chunk_results) =>
             /\ pc = "chunk_loop"
             /\ pc' = "chunk_end"
             /\ chunk_pos' = chunk_pos + 1
             /\ Len(chunk_results') = Len(chunk_results) + 1
             /\ SubSeq(chunk_results', 1, Len(chunk_results)) = chunk_results
             /\ chunk_results'[chunk_pos'].chunk_index = chunk_pos
             /\ Len(match_results') = Len(face_groups')]_vars

\* the pass for the second chunk has just ended, with a match in each pass
C19_Witness ==
    /\ pc = "chunk_end"
    /\ chunk_pos = 2
    /\ chunk_results[1].profile_ids # <<>>
    /\ chunk_results[2].profile_ids # <<>>
    /\ chunk_results[2].chunk_index = 1

\* ----------------------------------------------------------------- C20
\* C20: when analyze_video has failed, the store holds nothing of the
\* invocation: no video id was added to a profile and no interaction was
\* upserted.
C20_FailurePublishesNothing ==
    pc \in FailedStates => (store_video_ids = {} /\ upserts = <<>>)

\* ----------------------------------------------------------------- C28
\* C28: in the clusters group_faces_in_chunk returns, the anchors (first
\* elements) of two distinct clusters are at distance
\* >= face_grouping_threshold from each other, and the clusters come in
\* non-increasing order of their anchor's confidence.
C28_AnchorsApartInQualityOrder ==
    Grouped =>
        \A g, h \in 1..Len(face_groups) :
            (g < h) =>
                /\ face_distance(
                       face_detections[face_groups[g][1]].face_encoding,
                       face_detections[face_groups[h][1]].face_encoding)
                       >= face_grouping_threshold
                /\ face_detections[face_groups[g][1]].confidence
                       >= face_detections[face_groups[h][1]].confidence

\* two clusters whose anchors are exactly at the threshold from each other
\* and of different confidence, the better one given second in the input
C28_Witness ==
    /\ Grouped
    /\ Len(face_groups) = 2
    /\ face_groups[1][1] > face_groups[2][1]
    /\ face_distance(face_detections[face_groups[1][1]].face_encoding,
                     face_detections[face_groups[2][1]].face_encoding)
           = face_grouping_threshold
    /\ face_detections[face_groups[1][1]].confidence
           > face_detections[face_groups[2][1]].confidence

\* ------------------------------------------------------------ C29, C30
\* the upsert_interaction calls made for the unordered pair {a, b}
UpsertsOfPair(a, b) ==
    {k \in 1..Len(upserts) : {upserts[k].uid1, upserts[k].uid2} = {a, b}}

\* the entries of new_interactions for the unordered pair {a, b}
ListedPair(a, b) ==
    {k \in 1..Len(new_interactions) :
        {new_interactions[k].profile_1, new_interactions[k].profile_2}
            = {a, b}}

\* the entries of new_interactions of one interaction_type
ListedAs(type) ==
    {k \in 1..Len(new_interactions) :
        new_interactions[k].interaction_type = type}

\* C29 as stated: after a successful analyze_video every unordered pair of
\* distinct detected identities that share n > 0 chunks was sent to
\* upsert_interaction exactly once, with increment n, and is listed exactly
\* once, as detected_with_detected; a pair that shares no chunk is neither
\* upserted nor listed.
C29_EveryPairUpsertedOnce ==
    pc = "done" =>
        \A a, b \in ResultIds :
            (a # b) =>
                LET n == Cardinality(ChunksWithBoth(a, b))
                IN  IF n > 0
                    THEN /\ Cardinality(UpsertsOfPair(a, b)) = 1
                         /\ \A k \in UpsertsOfPair(a, b) :
                                upserts[k].increment_by = n
                         /\ Cardinality(ListedPair(a, b)) = 1
                         /\ ListedPair(a, b)
                                \subseteq ListedAs("detected_with_detected")
                    ELSE /\ UpsertsOfPair(a, b) = {}
                         /\ ListedPair(a, b) = {}

\* C29, amended: after a successful analyze_video every upsert_interaction
\* call is listed in new_interactions at its position; every unordered
\* pair of distinct detected identities that share n > 0 chunks has exactly
\* one detected_with_detected entry, of shared_chunks n, and a pair that
\* shares no chunk has none; a pair that does not hold the requester is
\* upserted and listed in no other way.
C29_PairUpsertedOnceAsDetected ==
    pc = "done" =>
        /\ Len(upserts) = Len(new_interactions)
        /\ \A k \in 1..Len(upserts) :
              /\ upserts[k].uid1 = new_interactions[k].profile_1
              /\ upserts[k].uid2 = new_interactions[k].profile_2
              /\ upserts[k].increment_by = new_interactions[k].shared_chunks
        /\ \A a, b \in ResultIds :
              (a # b) =>
                  LET n  == Cardinality(ChunksWithBoth(a, b))
                      dd == ListedPair(a, b)
                                \cap ListedAs("detected_with_detected")
                  IN  /\ (n > 0) =>
                            /\ Cardinality(dd) = 1
                            /\ \A k \in dd :
                                   new_interactions[k].shared_chunks = n
                      /\ (n = 0) => dd = {}
                      /\ (requester_user_id \notin {a, b}) =>
                            /\ ListedPair(a, b) = dd
                            /\ UpsertsOfPair(a, b) = dd

\* the requester is itself detected: A and B share a chunk, and the pair
\* was upserted twice, once by each loop
C29_Witness ==
    /\ pc = "done"
    /\ requester_user_id = "A"
    /\ ResultIds = {"A", "B"}
    /\ Cardinality(ChunksWithBoth("A", "B")) = 1
    /\ Cardinality(UpsertsOfPair("A", "B")) = 2
    /\ Cardinality(ListedPair("A", "B")
                       \cap ListedAs("detected_with_detected")) = 1

\* C30 as stated: after a successful analyze_video, for every detected
\* identity p other than the requester exactly one interaction between the
\* requester and p was upserted with increment chunk_appearances[p]; the
\* requester is never upserted with itself.
C30_RequesterUpsertedOnce ==
    pc = "done" =>
        /\ \A p \in ResultIds \ {requester_user_id} :
              Cardinality({k \in UpsertsOfPair(requester_user_id, p) :
                              upserts[k].increment_by
                                  = ResultOf(interaction_results, p)
                                        .chunk_appearances}) = 1
        /\ \A k \in 1..Len(upserts) :
              ~(/\ upserts[k].uid1 = requester_user_id
                /\ upserts[k].uid2 = requester_user_id)

\* C30, amended: after a successful analyze_video, for every detected
\* identity p other than the requester exactly one requester_with_detected
\* interaction between the requester and p was upserted, with increment
\* chunk_appearances[p]; the pair is upserted once more, as
\* detected_with_detected with their number of shared chunks, exactly when
\* the requester is detected in a chunk with p; the requester is never
\* upserted with itself.
C30_RequesterUpsertedOnceAsRequester ==
    pc = "done" =>
        /\ Len(upserts) = Len(new_interactions)
        /\ \A p \in ResultIds \ {requester_user_id} :
              LET calls == UpsertsOfPair(requester_user_id, p)
                  rd    == calls \cap ListedAs("requester_with_detected")
                  n     == Cardinality(ChunksWithBoth(requester_user_id, p))
              IN  /\ Cardinality(rd) = 1
                  /\ \A k \in rd :
                        /\ upserts[k].uid1 = requester_user_id
                        /\ upserts[k].uid2 = p
                        /\ upserts[k].increment_by
                              = ResultOf(interaction_results, p)
                                    .chunk_appearances
                  /\ Cardinality(calls) = IF n > 0 THEN 2 ELSE 1
                  /\ \A k \in calls \ rd : upserts[k].increment_by = n
        /\ \A k \in 1..Len(upserts) : upserts[k].uid1 # upserts[k].uid2

\* the requester A is detected in every chunk B is detected in: the pair
\* is upserted twice with the same increment
C30_Witness ==
    /\ pc = "done"
    /\ requester_user_id = "A"
    /\ "A" \in ResultIds
    /\ "B" \in ResultIds
    /\ ResultOf(interaction_results, "B").chunk_appearances
          = Cardinality(ChunksWithBoth("A", "B"))
    /\ Cardinality(UpsertsOfPair("A", "B")) = 2

\* ------------------------------------------------------------ C21, C27
\* the decoded frame a detect_faces_in_frame call was given
FrameOfCall(call) == frames[call.frame + 1]

\* the observations collected from the frame of a call
CollectedFrom(call) ==
    {k \in 1..Len(all_detections) : all_detections[k].frame = call.frame}

\* C21: a sampled frame that is empty, or on which the backend raises,
\* contributes no observation and does not end the chunk: every face of
\* every other sampled frame is collected, nothing else is, no call to the
\* detection makes process_video_chunk_faces fail, and when it returns
\* every sampled frame has been handed to the detection.
C21_BadFrameIsSkipped ==
    /\ \A c \in 1..Len(detect_calls) :
          LET call == detect_calls[c]
              bad  == FrameOfCall(call).size = 0 \/ call.raised
          IN  /\ bad => CollectedFrom(call) = {}
              /\ ~bad =>
                    {all_detections[k].face : k \in CollectedFrom(call)}
                        = 1..FrameOfCall(call).faces
              /\ Cardinality(CollectedFrom(call)) = call.returned
    /\ \A k \in 1..Len(all_detections) :
          \E c \in 1..Len(detect_calls) : k \in CollectedFrom(detect_calls[c])
    /\ pc = "frames_failed" => detect_calls = <<>>
    /\ pc = "frames_returned" => Len(detect_calls) = Len(selected_frames)

\* the chunk returned with the face of its last sampled frame, after an
\* empty frame and a frame with a face on which the backend raised
C21_Witness ==
    /\ pc = "frames_returned"
    /\ Len(detect_calls) = 3
    /\ FrameOfCall(detect_calls[1]).size = 0
    /\ detect_calls[2].raised
    /\ FrameOfCall(detect_calls[2]).faces = 1
    /\ ~detect_calls[3].raised
    /\ Len(all_detections) = 1
    /\ all_detections[1].frame = detect_calls[3].frame

\* C27: for N decoded frames and stride k = frame_skip >= 1 the frames
\* handed to the detection are, in this order, those of original index
\* 0, k, 2k, .. below N, all of them once the chunk has returned, and the
\* frame_number of every observation is the original index of the frame
\* it was detected in.
C27_StrideSampling ==
    /\ frame_skip >= 1
    /\ \A c \in 1..Len(detect_calls) :
          /\ detect_calls[c].frame = (c - 1) * frame_skip
          /\ detect_calls[c].frame < Len(frames)
          /\ detect_calls[c].frame_number = detect_calls[c].frame
    /\ pc = "frames_returned" =>
          {detect_calls[c].frame : c \in 1..Len(detect_calls)}
              = {n \in 0..(Len(frames) - 1) : n % frame_skip = 0}
    /\ \A k \in 1..Len(all_detections) :
          all_detections[k].frame_number = all_detections[k].frame

\* four frames, stride 2: frames 0 and 2 were sampled, and a face of
\* frame 2 was observed
C27_Witness ==
    /\ pc = "frames_returned"
    /\ frame_skip = 2
    /\ Len(frames) = 4
    /\ Len(detect_calls) = 2
    /\ \E k \in 1..Len(all_detections) : all_detections[k].frame_number = 2

\* ----------------------------------------------------------------- C22
\* the ids of the first n inputs of the batch
InputIds(n) == {profile_inputs[k].profile_id : k \in 1..n}

\* the last of the first n inputs that is for id
LastInputOf(id, n) ==
    profile_inputs[CHOOSE k \in 1..n :
        /\ profile_inputs[k].profile_id = id
        /\ \A m \in (k + 1)..n : profile_inputs[m].profile_id # id]

\* C22: in a batch of reference photos a failure of one input (no image, no
\* face in the image, a failed store call) gives that identity an error
\* status and nothing else: the inputs after it are processed, and the
\* result has exactly one status per distinct identity of the batch, that
\* of the identity's last input; process_profile_inputs always returns.
C22_FailureIsPerIdentity ==
    /\ pc \in {"seed", "seeded"}
    /\ DOMAIN processing_results = InputIds(seed_i)
    /\ \A id \in InputIds(seed_i) :
          LET last   == LastInputOf(id, seed_i)
              status == processing_results[id]
          IN  /\ last.image = "none" => status = StatusNoImage
              /\ last.image = "no_face" => status = StatusNoFace
              /\ last.image = "face" =>
                     status \in {StatusSuccess, StatusStore}
              /\ status = StatusSuccess => id \in stored_face_data
    /\ pc = "seeded" => seed_i = Len(profile_inputs)

\* a photo without a face for A, then a good photo for B: A has the error,
\* B was stored and succeeded
C22_Witness ==
    /\ pc = "seeded"
    /\ Len(profile_inputs) = 2
    /\ profile_inputs[1] = [profile_id |-> "A", image |-> "no_face"]
    /\ profile_inputs[2] = [profile_id |-> "B", image |-> "face"]
    /\ processing_results["A"] = StatusNoFace
    /\ processing_results["B"] = StatusSuccess
    /\ stored_face_data = {"B"}

\* ----------------------------------------------------------------- C25
\* C25: analyze_video_async sends at most one request, exactly one by the
\* time it has returned, with the caller's user id and video url; it never
\* raises, and it always returns: a timeout and any other failure of the
\* request are logged only.
C25_FireAndForgetNeverRaises ==
    /\ [](/\ pc \in {"notify", "posting", "notified"}
          /\ Len(posts) <= 1
          /\ pc \in {"posting", "notified"} =>
                 /\ Len(posts) = 1
                 /\ posts[1].requester_user_id = notify_args.user_id
                 /\ posts[1].video_url = notify_args.video_url
          /\ pc = "notified" => Len(notify_log) = 1)
    /\ <>(pc = "notified")

\* the request timed out and the call has returned
C25_Witness ==
    /\ pc = "notified"
    /\ Len(posts) = 1
    /\ notify_log = <<[level |-> "warning", status |-> 0]>>

\* ----------------------------------------------------------------- C23
\* C23: every analyze_video invocation eventually is done or has failed,
\* also when a call to the store, the download, ffprobe or ffmpeg does not
\* return.
C23_EveryInvocationEnds ==
    <>(pc = "done" \/ pc \in {"failed_load", "failed_download",
                              "failed_probe", "failed_transcode",
                              "failed_chunk", "failed_publish"})

\* ----------------------------------------------------------------- C24
\* the invocations that match the profile
MatchedBy(id) == {v \in Invocations : id \in SeqRange(inv_matched[v])}

\* C24: when two concurrent invocations for different videos are both
\* over, the store holds what running them one after the other leaves:
\* the video_ids of every profile hold the video id of each invocation
\* that matched it, and its interactions got one increment from each.
C24_ConcurrentEqualsSerial ==
    (\A v \in Invocations : inv_pc[v] = "done") =>
        \A id \in ProfileIds :
            /\ SeqRange(db_video_ids[id]) = {VideoId(v) : v \in MatchedBy(id)}
            /\ db_interactions[id] = Cardinality(MatchedBy(id))

\* ----------------------------------------------------------------- C26
\* the chunk ids of the first n chunks
FirstChunkIds(n) == {pv_chunks[k].chunk_id : k \in 1..n}

=============================================================================
